---- MODULE Spec2Model ----
(***************************************************************************)
(* Model of the MCP gateway in src/server.py.                              *)
(*                                                                         *)
(* Every tool is a coroutine: it builds a request, awaits one              *)
(* client.get(...) (the only suspension point), and then runs the rest of  *)
(* its body (status check, decoding, parsing, projection) to completion.   *)
(*                                                                         *)
(* Encodings.  A Python str that the code inspects character by character  *)
(* (str.strip) is a sequence of one-character strings; other strings are   *)
(* TLA+ strings.  An optional value (the result of dict.get, a parameter   *)
(* that may be None, a nullable field) is None == <<>> or Some(x) ==       *)
(* <<x>>.  A dict is a function.  An envelope is the dict the tool returns:*)
(* a function whose DOMAIN is the set of keys present.                     *)
(***************************************************************************)
EXTENDS Integers, Sequences, FiniteSets, TLC

\* ------------------------------------------------------------------------
\* Bounds
\* ------------------------------------------------------------------------

\* longest exposition document (in lines) an upstream returns
MaxLines == 3

\* longest document when two invocations are in flight together
ConcMaxLines == 1

\* ------------------------------------------------------------------------
\* Python values
\* ------------------------------------------------------------------------

None == <<>>

Some(x) == <<x>>

\* character strings used as label values and view parameters
s_Foo == <<"F", "o", "o">>

s_foo == <<"f", "o", "o">>

s_FooSp == <<"F", "o", "o", " ">>

s_SpfooSp == <<" ", "f", "o", "o", " ">>

s_T1 == <<"T", "1">>

s_T2 == <<"T", "2">>

s_alice == <<"a", "l">>

s_bob == <<"b", "o">>

s_E1 == <<"E", "1">>

s_g1 == <<"g", "1">>

s_g2 == <<"g", "2">>

s_empty == <<>>

s_Unknown == <<"U", "n", "k", "n", "o", "w", "n">>

Whitespace == {" ", "\t", "\n"}

RECURSIVE lstrip(_)
lstrip(s) ==
    IF s # <<>> /\ Head(s) \in Whitespace THEN lstrip(Tail(s)) ELSE s

RECURSIVE rstrip(_)
rstrip(s) ==
    IF s # <<>> /\ s[Len(s)] \in Whitespace
    THEN rstrip(SubSeq(s, 1, Len(s) - 1))
    ELSE s

\* mutant of strip: the value is used as it came
unstripped(s) == s

\* str.strip(): leading and trailing whitespace removed, case untouched
strip(s) == rstrip(lstrip(s))

\* dict.get(key): the value, or None when the key is missing
get(d, key) == IF key \in DOMAIN d THEN Some(d[key]) ELSE None

\* ------------------------------------------------------------------------
\* Exposition text
\* ------------------------------------------------------------------------
\* A document is a sequence of lines.  A line is a sample
\* (metric_name{labels} value), a "# TYPE name gauge" comment, or a line the
\* parser cannot read (malformed label block, non-numeric value).

Sample(name, labels, value) ==
    [kind |-> "sample", name |-> name, labels |-> labels, value |-> value]

TypeLine(name) == [kind |-> "type", name |-> name]

Malformed == [kind |-> "malformed"]

\* lines the Skill Matrix /metrics endpoint may serve
SkillLines ==
    { Sample("proficiency_by_user_initiative",
             [submitter |-> s_alice, initiative |-> s_foo, epic_team |-> s_T1], 3),
      Sample("proficiency_by_user_initiative",
             [submitter |-> s_bob, initiative |-> s_Foo, epic_team |-> s_T2], 4),
      Sample("initiative_coverage",
             [submitter |-> s_alice, initiative |-> s_Foo, epic_team |-> s_T1], 50),
      Sample("initiative_coverage",
             [submitter |-> s_bob, initiative |-> s_foo], 20),
      Sample("submitter_experience_by_initiative",
             [initiative |-> s_Foo, epic_team |-> s_T1], 2),
      Sample("proficiency_by_user_epic",
             [submitter |-> s_alice, epic |-> s_E1, epic_team |-> s_T1], 4),
      Sample("submitter_experience_by_epic", [epic |-> s_E1], 2),
      TypeLine("proficiency_by_user_initiative"),
      Malformed }

\* lines the Swarm /metrics/ endpoint may serve
SwarmLines ==
    { Sample("group_top_contributor", [group |-> s_g1, contributor |-> s_alice], 5),
      Sample("group_top_contributor", [group |-> s_g1, contributor |-> s_bob], 5),
      Sample("group_total_reviews", [group |-> s_g1], 7),
      Sample("group_daily_total_reviews", [group |-> s_g2], 1),
      TypeLine("group_top_contributor"),
      Malformed }

\* all documents of at most n lines over a set of lines
Docs(lines, n) == UNION { [1..k -> lines] : k \in 0..n }

\* ------------------------------------------------------------------------
\* prometheus_client.parser.text_string_to_metric_families
\* ------------------------------------------------------------------------
\* The library call is a generator.  It yields a family when the next family
\* starts (a sample whose name no TYPE line announced is yielded at once as a
\* family of its own) and raises ValueError at the first line it cannot
\* read: the families yielded before that line have been handed to the
\* caller's loop, the family being collected has not.
\* cur is None or Some(family being collected); out the families yielded;
\* consumed counts the lines read without error.

Family(name, samples) == [name |-> name, samples |-> samples]

Yield(out, cur) == IF cur = None THEN out ELSE out \o cur

RECURSIVE parse_from(_, _, _, _)
parse_from(text, k, cur, out) ==
    IF k > Len(text)
    THEN [families |-> Yield(out, cur), error |-> FALSE, consumed |-> Len(text)]
    ELSE LET line == text[k] IN
         CASE line.kind = "malformed" ->
                [families |-> out, error |-> TRUE, consumed |-> k - 1]
           [] line.kind = "type" ->
                IF cur # None /\ cur[1].name = line.name
                THEN parse_from(text, k + 1, cur, out)
                ELSE parse_from(text, k + 1, Some(Family(line.name, <<>>)),
                                Yield(out, cur))
           [] line.kind = "sample" ->
                IF cur # None /\ cur[1].name = line.name
                THEN parse_from(text, k + 1,
                        Some(Family(line.name, Append(cur[1].samples, line))), out)
                ELSE parse_from(text, k + 1, None,
                        Append(Yield(out, cur), Family(line.name, <<line>>)))

\* mutant of text_string_to_metric_families: a parser that drops the lines
\* it cannot read and goes on
parse_skipping(text) ==
    parse_from(SelectSeq(text, LAMBDA line : line.kind # "malformed"), 1, None, <<>>)

text_string_to_metric_families(text) == parse_from(text, 1, None, <<>>)

\* ------------------------------------------------------------------------
\* Python list and dict operations the views use
\* ------------------------------------------------------------------------

EmptyDict == [k \in {} |-> k]

\* mutant of DictSet: d.setdefault(key, value), an existing key keeps its value
DictSetDefault(d, key, value) ==
    [k \in DOMAIN d \cup {key} |-> IF k \in DOMAIN d THEN d[k] ELSE value]

\* d[key] = value
DictSet(d, key, value) ==
    [k \in DOMAIN d \cup {key} |-> IF k = key THEN value ELSE d[k]]

\* mutant of InsertDesc: an insertion that puts x before the entries equal
\* to it (an unstable descending sort)
InsertBeforeEqual(sorted, x, field) ==
    LET n == Cardinality({j \in 1..Len(sorted) : sorted[j][field] > x[field]})
    IN  SubSeq(sorted, 1, n) \o <<x>> \o SubSeq(sorted, n + 1, Len(sorted))

\* insertion point of x in a list sorted descending by field: after every
\* entry whose field is >= x's (equal entries keep their encounter order)
InsertDesc(sorted, x, field) ==
    LET n == Cardinality({j \in 1..Len(sorted) : sorted[j][field] >= x[field]})
    IN  SubSeq(sorted, 1, n) \o <<x>> \o SubSeq(sorted, n + 1, Len(sorted))

RECURSIVE sort_from(_, _, _, _)
sort_from(list, k, sorted, field) ==
    IF k > Len(list) THEN sorted
    ELSE sort_from(list, k + 1, InsertDesc(sorted, list[k], field), field)

\* list.sort(key=lambda c: c[field], reverse=True): stable, descending
sort_desc(list, field) == sort_from(list, 1, <<>>, field)

\* list[:limit]
slice_to(list, limit) ==
    IF limit >= 0
    THEN SubSeq(list, 1, IF limit < Len(list) THEN limit ELSE Len(list))
    ELSE SubSeq(list, 1, IF Len(list) + limit > 0 THEN Len(list) + limit ELSE 0)

\* ------------------------------------------------------------------------
\* The projection views: the statements between the fetch and the parse
\* ------------------------------------------------------------------------

SkillViews ==
    { "get_submitter_skill_profile", "get_initiative_coverage",
      "find_best_submitters_for_initiative", "get_epic_expertise" }

SwarmViews ==
    { "get_swarm_group_summary", "get_swarm_group_top_contributors",
      "get_swarm_group_daily_snapshot" }

Views == SkillViews \cup SwarmViews

NoLocals == [unset |-> TRUE]

summary_fields ==
    [ group_engagement_rate |-> "engagement_rate",
      group_avg_time_to_first_vote |-> "avg_time_to_first_vote_hours",
      group_avg_vote_up_duration |-> "avg_vote_up_duration_hours",
      group_total_reviews |-> "total_reviews",
      group_avg_review_duration |-> "avg_review_duration_hours",
      group_fully_engaged_reviews |-> "fully_engaged_reviews",
      group_partially_engaged_reviews |-> "partially_engaged_reviews",
      group_not_engaged_reviews |-> "not_engaged_reviews",
      group_needs_review_count |-> "needs_review_count" ]

snapshot_fields ==
    [ group_daily_engagement_rate |-> "daily_engagement_rate",
      group_daily_avg_time_to_first_vote |-> "daily_avg_time_to_first_vote_hours",
      group_daily_avg_vote_up_duration |-> "daily_avg_vote_up_duration_hours",
      group_daily_total_reviews |-> "daily_total_reviews",
      group_daily_avg_review_duration |-> "daily_avg_review_duration_hours",
      group_daily_needs_review_count |-> "daily_needs_review_count" ]

Range(f) == { f[x] : x \in DOMAIN f }

\* the fixed-shape record: "group" set, every other field None
blank_record(fields, group) ==
    [f \in Range(fields) \cup {"group"} |-> IF f = "group" THEN group ELSE None]

\* True when the statements before the second try raise: str.strip() on a
\* value that is no str (AttributeError)
normalise_raises(op, args) ==
    /\ op \in {"get_initiative_coverage", "find_best_submitters_for_initiative"}
    /\ args.initiative = None

\* mutant of view_locals: the epic is looked up as it was given
view_locals_epic_as_given(op, args) ==
    CASE op = "get_submitter_skill_profile" ->
           [by_initiative |-> <<>>, by_epic |-> <<>>]
      [] op = "get_initiative_coverage" ->
           [total_submitters_by_team |-> EmptyDict,
            coverage_pct_by_submitter |-> <<>>,
            normalized_initiative |-> strip(args.initiative[1])]
      [] op = "find_best_submitters_for_initiative" ->
           [normalized_initiative |-> strip(args.initiative[1]),
            candidates |-> <<>>]
      [] op = "get_epic_expertise" ->
           [target_epic |-> args.epic,
            submitter_count |-> 0,
            submitter_levels |-> <<>>]
      [] op = "get_swarm_group_summary" ->
           [target_group |-> args.group,
            summary |-> blank_record(summary_fields, args.group)]
      [] op = "get_swarm_group_top_contributors" ->
           [target_group |-> args.group, contributors |-> <<>>]
      [] op = "get_swarm_group_daily_snapshot" ->
           [target_group |-> args.group,
            snapshot |-> blank_record(snapshot_fields, args.group)]

\* the locals each view sets up before its second try
view_locals(op, args) ==
    CASE op = "get_submitter_skill_profile" ->
           [by_initiative |-> <<>>, by_epic |-> <<>>]
      [] op = "get_initiative_coverage" ->
           [total_submitters_by_team |-> EmptyDict,
            coverage_pct_by_submitter |-> <<>>,
            normalized_initiative |-> strip(args.initiative[1])]
      [] op = "find_best_submitters_for_initiative" ->
           [normalized_initiative |-> strip(args.initiative[1]),
            candidates |-> <<>>]
      [] op = "get_epic_expertise" ->
           [target_epic |-> IF args.epic # s_empty THEN args.epic ELSE s_Unknown,
            submitter_count |-> 0,
            submitter_levels |-> <<>>]
      [] op = "get_swarm_group_summary" ->
           [target_group |-> args.group,
            summary |-> blank_record(summary_fields, args.group)]
      [] op = "get_swarm_group_top_contributors" ->
           [target_group |-> args.group, contributors |-> <<>>]
      [] op = "get_swarm_group_daily_snapshot" ->
           [target_group |-> args.group,
            snapshot |-> blank_record(snapshot_fields, args.group)]

\* ------------------------------------------------------------------------
\* The projection views: the body of "for sample in family.samples"
\* ------------------------------------------------------------------------

\* mutant of visit_skill_profile: the requested identity is stripped before
\* it is compared
visit_skill_profile_stripping(args, locals, name, sample) ==
    LET labels == sample.labels IN
    IF name = "proficiency_by_user_initiative"
       /\ get(labels, "submitter") = Some(strip(args.submitter))
    THEN [locals EXCEPT !.by_initiative = Append(@,
             [initiative |-> get(labels, "initiative"),
              epic_team |-> get(labels, "epic_team"),
              proficiency_level |-> sample.value])]
    ELSE IF name = "proficiency_by_user_epic"
            /\ get(labels, "submitter") = Some(strip(args.submitter))
    THEN [locals EXCEPT !.by_epic = Append(@,
             [epic |-> get(labels, "epic"),
              epic_team |-> get(labels, "epic_team"),
              proficiency_level |-> sample.value])]
    ELSE locals

visit_skill_profile(args, locals, name, sample) ==
    LET labels == sample.labels IN
    IF name = "proficiency_by_user_initiative"
       /\ get(labels, "submitter") = Some(args.submitter)
    THEN [locals EXCEPT !.by_initiative = Append(@,
             [initiative |-> get(labels, "initiative"),
              epic_team |-> get(labels, "epic_team"),
              proficiency_level |-> sample.value])]
    ELSE IF name = "proficiency_by_user_epic"
            /\ get(labels, "submitter") = Some(args.submitter)
    THEN [locals EXCEPT !.by_epic = Append(@,
             [epic |-> get(labels, "epic"),
              epic_team |-> get(labels, "epic_team"),
              proficiency_level |-> sample.value])]
    ELSE locals

\* mutant of coverage_selects: a sample without the epic_team label passes a
\* non-empty epic_team (the missing label read as "any team")
coverage_selects_unlabelled(args, locals, labels) ==
    /\ get(labels, "initiative") = Some(locals.normalized_initiative)
    /\ ~ (/\ args.epic_team # s_empty
          /\ get(labels, "epic_team") # None
          /\ get(labels, "epic_team") # Some(args.epic_team))

\* "if labels.get("initiative") != normalized_initiative: continue" and
\* "if epic_team and team != epic_team: continue"
coverage_selects(args, locals, labels) ==
    /\ get(labels, "initiative") = Some(locals.normalized_initiative)
    /\ ~ (args.epic_team # s_empty /\ get(labels, "epic_team") # Some(args.epic_team))

visit_initiative_coverage(args, locals, name, sample) ==
    LET labels == sample.labels
        team == get(labels, "epic_team")
    IN
    IF name = "submitter_experience_by_initiative"
       /\ coverage_selects(args, locals, labels)
    THEN [locals EXCEPT !.total_submitters_by_team = DictSet(@, team, sample.value)]
    ELSE IF name = "initiative_coverage" /\ coverage_selects(args, locals, labels)
    THEN [locals EXCEPT !.coverage_pct_by_submitter = Append(@,
             [submitter |-> get(labels, "submitter"),
              initiative |-> get(labels, "initiative"),
              epic_team |-> team,
              coverage_pct |-> sample.value])]
    ELSE locals

\* mutant of visit_best_submitters: only levels above min_level are kept
visit_best_submitters_above(args, locals, name, sample) ==
    LET labels == sample.labels
        level == sample.value
    IN
    IF /\ name = "proficiency_by_user_initiative"
       /\ get(labels, "initiative") = Some(locals.normalized_initiative)
       /\ level > args.min_level
    THEN [locals EXCEPT !.candidates = Append(@,
             [submitter |-> get(labels, "submitter"),
              initiative |-> get(labels, "initiative"),
              epic_team |-> get(labels, "epic_team"),
              proficiency_level |-> level])]
    ELSE locals

visit_best_submitters(args, locals, name, sample) ==
    LET labels == sample.labels
        level == sample.value
    IN
    IF /\ name = "proficiency_by_user_initiative"
       /\ get(labels, "initiative") = Some(locals.normalized_initiative)
       /\ level >= args.min_level
    THEN [locals EXCEPT !.candidates = Append(@,
             [submitter |-> get(labels, "submitter"),
              initiative |-> get(labels, "initiative"),
              epic_team |-> get(labels, "epic_team"),
              proficiency_level |-> level])]
    ELSE locals

\* mutant of visit_epic_expertise: the first count found for the epic is kept
visit_epic_expertise_first_count(args, locals, name, sample) ==
    LET labels == sample.labels IN
    IF name = "submitter_experience_by_epic"
       /\ get(labels, "epic") = Some(locals.target_epic)
    THEN IF locals.submitter_count = 0
         THEN [locals EXCEPT !.submitter_count = sample.value]
         ELSE locals
    ELSE IF name = "proficiency_by_user_epic"
            /\ get(labels, "epic") = Some(locals.target_epic)
    THEN [locals EXCEPT !.submitter_levels = Append(@,
             [submitter |-> get(labels, "submitter"),
              epic_team |-> get(labels, "epic_team"),
              proficiency_level |-> sample.value])]
    ELSE locals

visit_epic_expertise(args, locals, name, sample) ==
    LET labels == sample.labels IN
    IF name = "submitter_experience_by_epic"
       /\ get(labels, "epic") = Some(locals.target_epic)
    THEN [locals EXCEPT !.submitter_count = sample.value]
    ELSE IF name = "proficiency_by_user_epic"
            /\ get(labels, "epic") = Some(locals.target_epic)
    THEN [locals EXCEPT !.submitter_levels = Append(@,
             [submitter |-> get(labels, "submitter"),
              epic_team |-> get(labels, "epic_team"),
              proficiency_level |-> sample.value])]
    ELSE locals

\* mutant of dispatch: a field once set is kept (first sample wins)
dispatch_first_wins(record, fields, name, val) ==
    IF name \in DOMAIN fields /\ record[fields[name]] = None
    THEN [record EXCEPT ![fields[name]] = Some(val)]
    ELSE record

\* the if/elif chain on family.name of the summary and the daily snapshot
dispatch(record, fields, name, val) ==
    IF name \in DOMAIN fields
    THEN [record EXCEPT ![fields[name]] = Some(val)]
    ELSE record

visit_group_summary(args, locals, name, sample) ==
    IF get(sample.labels, "group") # Some(locals.target_group)
    THEN locals
    ELSE [locals EXCEPT !.summary = dispatch(@, summary_fields, name, sample.value)]

visit_top_contributors(args, locals, name, sample) ==
    LET labels == sample.labels IN
    IF name # "group_top_contributor"
       \/ get(labels, "group") # Some(locals.target_group)
    THEN locals
    ELSE [locals EXCEPT !.contributors = Append(@,
             [group |-> get(labels, "group"),
              contributor |-> get(labels, "contributor"),
              activity_count |-> sample.value])]

visit_daily_snapshot(args, locals, name, sample) ==
    IF get(sample.labels, "group") # Some(locals.target_group)
    THEN locals
    ELSE [locals EXCEPT !.snapshot = dispatch(@, snapshot_fields, name, sample.value)]

visit(op, args, locals, name, sample) ==
    CASE op = "get_submitter_skill_profile" ->
           visit_skill_profile(args, locals, name, sample)
      [] op = "get_initiative_coverage" ->
           visit_initiative_coverage(args, locals, name, sample)
      [] op = "find_best_submitters_for_initiative" ->
           visit_best_submitters(args, locals, name, sample)
      [] op = "get_epic_expertise" ->
           visit_epic_expertise(args, locals, name, sample)
      [] op = "get_swarm_group_summary" ->
           visit_group_summary(args, locals, name, sample)
      [] op = "get_swarm_group_top_contributors" ->
           visit_top_contributors(args, locals, name, sample)
      [] op = "get_swarm_group_daily_snapshot" ->
           visit_daily_snapshot(args, locals, name, sample)

RECURSIVE for_samples(_, _, _, _, _)
for_samples(op, args, locals, family, k) ==
    IF k > Len(family.samples) THEN locals
    ELSE for_samples(op, args,
                     visit(op, args, locals, family.name, family.samples[k]),
                     family, k + 1)

\* "for family in text_string_to_metric_families(metrics_text)"
RECURSIVE for_families(_, _, _, _, _)
for_families(op, args, locals, families, k) ==
    IF k > Len(families) THEN locals
    ELSE for_families(op, args,
                      for_samples(op, args, locals, families[k], 1),
                      families, k + 1)

\* the statements after the loop: sort, truncate, build "data"
view_data(op, args, locals) ==
    CASE op = "get_submitter_skill_profile" ->
           [submitter |-> args.submitter,
            by_initiative |-> locals.by_initiative,
            by_epic |-> locals.by_epic]
      [] op = "get_initiative_coverage" ->
           [initiative |-> locals.normalized_initiative,
            total_submitters_by_team |-> locals.total_submitters_by_team,
            coverage_by_submitter |-> locals.coverage_pct_by_submitter]
      [] op = "find_best_submitters_for_initiative" ->
           [initiative |-> locals.normalized_initiative,
            min_level |-> args.min_level,
            candidates |-> sort_desc(locals.candidates, "proficiency_level")]
      [] op = "get_epic_expertise" ->
           [epic |-> locals.target_epic,
            total_submitters |-> locals.submitter_count,
            submitter_levels |-> sort_desc(locals.submitter_levels, "proficiency_level")]
      [] op = "get_swarm_group_summary" -> locals.summary
      [] op = "get_swarm_group_top_contributors" ->
           [group |-> locals.target_group,
            top_contributors |->
                slice_to(sort_desc(locals.contributors, "activity_count"), args.limit)]
      [] op = "get_swarm_group_daily_snapshot" -> locals.snapshot

\* ------------------------------------------------------------------------
\* The tools and their requests
\* ------------------------------------------------------------------------
\* An f-string or a str.join is the sequence of its pieces.

P4Ops ==
    { "get_p4_stream_summary", "check_stream_changelists", "get_stream_changelists",
      "get_stream_files", "get_changelist_details", "find_changelist_streams" }

SprintOps ==
    { "get_sprint_metrics", "get_active_jira_sprints", "get_jira_sprint_tasks",
      "get_user_sprint_tasks", "get_user_sprint_hours", "search_jira_tasks" }

RawOps == { "get_skill_matrix_metrics_raw", "get_swarm_metrics_raw" }

\* the tools that forward one upstream answer
ProxyOps == P4Ops \cup SprintOps \cup RawOps \cup {"get_swarm_group_history"}

Ops == ProxyOps \cup Views

\* the environment variable holding the base URL of the tool's upstream
base_url(op) ==
    IF op \in P4Ops THEN "P4DIFF_BASE_URL"
    ELSE IF op \in SprintOps THEN "SPRINT_INSIGHTS_BASE_URL"
    ELSE IF op \in SkillViews \cup {"get_skill_matrix_metrics_raw"}
    THEN "SKILL_MATRIX_BASE_URL"
    ELSE "SWARM_METRICS_BASE_URL"

path(op) ==
    CASE op = "get_p4_stream_summary" -> "/api/stream-summary/"
      [] op = "check_stream_changelists" -> "/api/stream-changelists-membership/"
      [] op = "get_stream_changelists" -> "/api/stream-changelists/"
      [] op = "get_stream_files" -> "/api/stream-files/"
      [] op = "get_changelist_details" -> "/api/changelist-details/"
      [] op = "find_changelist_streams" -> "/api/changelists-streams/"
      [] op = "get_sprint_metrics" -> "/api/sprint-summary/"
      [] op = "get_active_jira_sprints" -> "/tasks/api/active-sprints/"
      [] op = "get_jira_sprint_tasks" -> "/tasks/api/sprint-tasks/"
      [] op = "get_user_sprint_tasks" -> "/api/sprint-user-tasks/"
      [] op = "get_user_sprint_hours" -> "/api/sprint-user-tasks/"
      [] op = "search_jira_tasks" -> "/api/search-tasks/"
      [] op = "get_swarm_group_history" -> "/api/group-metrics-range/"
      [] op \in SkillViews \cup {"get_skill_matrix_metrics_raw"} -> "/metrics"
      [] op \in SwarmViews \cup {"get_swarm_metrics_raw"} -> "/metrics/"

\* ",".join(str(c) for c in changelists)
RECURSIVE join_cls(_)
join_cls(changelists) ==
    IF changelists = <<>> THEN <<>>
    ELSE IF Len(changelists) = 1 THEN <<ToString(changelists[1])>>
    ELSE <<ToString(changelists[1]), ",">> \o join_cls(Tail(changelists))

\* mutant of SetIf: the parameter is set whatever its value
SetAlways(params, name, value) == DictSet(params, name, value)

\* params["name"] = value, done only "if value:"
SetIf(params, name, value) ==
    IF value # "" THEN DictSet(params, name, value) ELSE params

\* the query parameters of the tool's GET
query_params(op, args) ==
    CASE op \in {"get_p4_stream_summary", "get_stream_changelists", "get_stream_files"} ->
           [stream |-> args.stream]
      [] op = "check_stream_changelists" ->
           [stream |-> args.stream, cls |-> join_cls(args.changelists)]
      [] op = "get_changelist_details" -> [cl |-> args.changelist]
      [] op = "find_changelist_streams" -> [cls |-> join_cls(args.changelists)]
      [] op = "get_sprint_metrics" -> [sprint_name |-> args.sprint_name]
      [] op = "get_jira_sprint_tasks" ->
           SetIf([sprint_id |-> args.sprint_id], "status", args.status_filter)
      [] op = "get_user_sprint_tasks" ->
           SetIf([sprint_id |-> args.sprint_id, user |-> args.user_name],
                 "status", args.status_filter)
      [] op = "get_user_sprint_hours" ->
           [sprint_id |-> args.sprint_id, user |-> args.user_name]
      [] op = "search_jira_tasks" ->
           SetIf(SetIf(SetIf([q |-> args.query], "sprint_id", args.sprint_id),
                       "user", args.user_name),
                 "status", args.status_filter)
      [] op = "get_swarm_group_history" ->
           [group |-> args.group, start |-> args.start_date, end |-> args.end_date]
      [] OTHER -> EmptyDict

\* the arguments each tool is called with
Args(op) ==
    CASE op \in {"get_p4_stream_summary", "get_stream_changelists", "get_stream_files"} ->
           { [stream |-> "//Game/dev"] }
      [] op = "check_stream_changelists" ->
           { [stream |-> "//Game/dev", changelists |-> <<101, 102>>] }
      [] op = "get_changelist_details" -> { [changelist |-> 101] }
      [] op = "find_changelist_streams" -> { [changelists |-> <<101, 102>>] }
      [] op = "get_sprint_metrics" -> { [sprint_name |-> "S1"] }
      [] op = "get_jira_sprint_tasks" ->
           { [sprint_id |-> "42", status_filter |-> f] : f \in {"", "CLOSED"} }
      [] op = "get_user_sprint_tasks" ->
           { [sprint_id |-> "42", user_name |-> "al", status_filter |-> f] :
               f \in {"", "CLOSED"} }
      [] op = "get_user_sprint_hours" -> { [sprint_id |-> "42", user_name |-> "al"] }
      [] op = "search_jira_tasks" ->
           { [query |-> "fix", sprint_id |-> sp, user_name |-> u, status_filter |-> f] :
               sp \in {"", "42"}, u \in {"", "al"}, f \in {"", "CLOSED"} }
      [] op = "get_swarm_group_history" ->
           { [group |-> "g1", start_date |-> "2025-01-01", end_date |-> "2025-01-31"] }
      [] op = "get_submitter_skill_profile" ->
           { [submitter |-> sub] : sub \in {s_alice, s_bob} }
      [] op = "get_initiative_coverage" ->
           { [initiative |-> ini, epic_team |-> t] :
               ini \in {Some(s_Foo), Some(s_FooSp), Some(s_foo), Some(s_SpfooSp), None},
               t \in {s_empty, s_T1} }
      [] op = "find_best_submitters_for_initiative" ->
           { [initiative |-> ini, min_level |-> m] :
               ini \in {Some(s_Foo), Some(s_FooSp), Some(s_foo), Some(s_SpfooSp), None},
               m \in {3, 4} }
      [] op = "get_epic_expertise" -> { [epic |-> e] : e \in {s_E1, s_empty} }
      [] op \in {"get_swarm_group_summary", "get_swarm_group_daily_snapshot"} ->
           { [group |-> g] : g \in {s_g1, s_g2} }
      [] op = "get_swarm_group_top_contributors" ->
           { [group |-> g, limit |-> l] : g \in {s_g1, s_g2}, l \in {1, 5} }
      [] OTHER -> { EmptyDict }

\* ------------------------------------------------------------------------
\* Upstream answers
\* ------------------------------------------------------------------------

\* what client.get raises when no response arrives (a timeout included)
TransportErrors == { "ReadTimeout", "ConnectError" }

ErrorStatuses == { 400, 404, 500 }

Exception(cause) == [kind |-> "exception", cause |-> cause]

Http(status, body) == [kind |-> "http", status |-> status, body |-> body]

\* a text/plain exposition document
TextBody(text) == [fmt |-> "text", text |-> text]

\* an error page: text that is neither JSON nor an exposition line
ErrorPage == <<Malformed>>

JsonBody(value) == [fmt |-> "json", value |-> value]

\* decoded JSON values: an object (a dict), null, an array
JsonObject(fields) == [t |-> "object", fields |-> fields]

JsonNull == [t |-> "null"]

JsonArray == [t |-> "array"]

JsonBodies ==
    { JsonBody(JsonObject([sprint_id |-> "42", user |-> "al", total_tasks |-> "3",
                           tasks |-> "T-1,T-2"])),
      JsonBody(JsonObject(EmptyDict)),
      JsonBody(JsonNull),
      JsonBody(JsonArray),
      TextBody(ErrorPage) }

\* the bodies a 2xx answer to the tool may carry
SuccessBodies(op, docs) ==
    IF op \in SkillViews \cup {"get_skill_matrix_metrics_raw"}
    THEN { TextBody(d) : d \in docs.skill }
    ELSE IF op \in SwarmViews \cup {"get_swarm_metrics_raw"}
    THEN { TextBody(d) : d \in docs.swarm }
    ELSE JsonBodies

Responses(op, docs) ==
    { Http(200, b) : b \in SuccessBodies(op, docs) }
      \cup { Http(st, TextBody(ErrorPage)) : st \in ErrorStatuses }

\* resp.json() raises unless the body is JSON
json_raises(resp) == resp.body.fmt # "json"

\* mutant of raise_for_status_raises: only server errors raise
raises_on_5xx_only(resp) == resp.status >= 500

\* resp.raise_for_status() raises HTTPStatusError unless the status is 2xx
raise_for_status_raises(resp) == ~ (resp.status >= 200 /\ resp.status < 300)

\* ------------------------------------------------------------------------
\* Envelopes
\* ------------------------------------------------------------------------

\* {"ok": True, "data": data}
Ok(data) == [ok |-> TRUE, data |-> data]

\* mutant of Err: the failure envelope without its message
ErrWithoutMessage(message) == [ok |-> FALSE]

\* {"ok": False, "error": message}
Err(message) == [ok |-> FALSE, error |-> message]

NoResult == [unset |-> TRUE]

\* str(e) of the exception a failed status check raises
StatusError(resp) == <<"HTTPStatusError ", ToString(resp.status)>>

not_found_message(op, args) ==
    CASE op \in {"get_p4_stream_summary", "check_stream_changelists",
                 "get_stream_changelists", "get_stream_files"} ->
           <<"Stream not found in P4StreamDiff: ", args.stream>>
      [] op = "get_changelist_details" ->
           <<"Changelist not found in P4StreamDiff: ", ToString(args.changelist)>>
      [] op = "find_changelist_streams" ->
           <<"Endpoint /api/changelists-streams/ not found on P4Diff">>
      [] op = "get_sprint_metrics" ->
           <<"Sprint not found in SprintInsights: ", args.sprint_name>>
      [] op = "get_active_jira_sprints" ->
           <<"active-sprints endpoint not found on Jira tasks service">>
      [] op = "get_jira_sprint_tasks" ->
           <<"Sprint ", args.sprint_id, " not found in Jira tasks service">>
      [] op \in {"get_user_sprint_tasks", "get_user_sprint_hours"} ->
           <<"Sprint ", args.sprint_id, " or user ", args.user_name,
             " not found in Jira tasks service">>
      [] op = "search_jira_tasks" ->
           <<"search-tasks endpoint not found on Jira tasks service">>
      [] op = "get_skill_matrix_metrics_raw" ->
           <<"Skill Matrix /metrics endpoint not found">>
      [] op = "get_swarm_metrics_raw" -> <<"Swarm /metrics endpoint not found">>
      [] op = "get_swarm_group_history" ->
           <<"group-metrics-range endpoint not found on Swarm app">>

\* the text before "{e}" in the tool's "except Exception as e" envelope
failure_prefix(op) ==
    CASE op = "get_p4_stream_summary" -> "stream-summary call failed: "
      [] op = "check_stream_changelists" -> "stream-changelists-membership call failed: "
      [] op = "get_stream_changelists" -> "stream-changelists call failed: "
      [] op = "get_stream_files" -> "stream-files call failed: "
      [] op = "get_changelist_details" -> "changelist-details call failed: "
      [] op = "find_changelist_streams" -> "changelists-streams call failed: "
      [] op = "get_sprint_metrics" -> "SprintInsights call failed: "
      [] op = "get_active_jira_sprints" -> "active-sprints call failed: "
      [] op = "get_jira_sprint_tasks" -> "sprint-tasks call failed: "
      [] op = "get_user_sprint_tasks" -> "sprint-user-tasks call failed: "
      [] op = "get_user_sprint_hours" -> "sprint-user-tasks (hours view) call failed: "
      [] op = "search_jira_tasks" -> "search-tasks call failed: "
      [] op = "get_skill_matrix_metrics_raw" -> "Skill Matrix /metrics call failed: "
      [] op = "get_swarm_metrics_raw" -> "Swarm metrics call failed: "
      [] op = "get_swarm_group_history" -> "Swarm date-range metrics call failed: "
      [] op \in SkillViews -> "Failed to fetch Skill Matrix metrics: "
      [] op \in SwarmViews -> "Failed to fetch Swarm metrics: "

\* the text before "{e}" in the envelope of a view's second handler
parse_prefix(op) ==
    CASE op = "get_submitter_skill_profile" -> "Error parsing Skill Matrix metrics: "
      [] op = "get_initiative_coverage" ->
           "Error parsing Skill Matrix initiative metrics: "
      [] op = "find_best_submitters_for_initiative" ->
           "Error parsing proficiency metrics: "
      [] op = "get_epic_expertise" -> "Error parsing epic expertise metrics: "
      [] op = "get_swarm_group_summary" -> "Error parsing Swarm metrics: "
      [] op = "get_swarm_group_top_contributors" -> "Error parsing top contributors: "
      [] op = "get_swarm_group_daily_snapshot" -> "Error parsing Swarm daily metrics: "

\* the ten fields get_user_sprint_hours picks out of the upstream object
hours_fields ==
    { "sprint_id", "sprint_name", "user", "total_tasks", "completed_tasks",
      "open_tasks", "unestimated_tasks", "total_estimated_hours",
      "completed_estimated_hours", "open_estimated_hours" }

hours_summary(full) == [f \in hours_fields |-> get(full.fields, f)]

\* ------------------------------------------------------------------------
\* What a tool does once its GET has been answered
\* ------------------------------------------------------------------------
\* An outcome: the tool returned an envelope (pc "returned") or an exception
\* left it (pc "raised"); parsing tells whether the view reached its second
\* try; locals are the view's accumulators when it ended and consumed the
\* lines of the document the parser had read by then.

Returned(result, parsing, locals, consumed) ==
    [pc |-> "returned", result |-> result, exception |-> "",
     parsing |-> parsing, locals |-> locals, consumed |-> consumed]

Raised(exception) ==
    [pc |-> "raised", result |-> NoResult, exception |-> exception,
     parsing |-> FALSE, locals |-> NoLocals, consumed |-> 0]

\* the envelope of a proxy tool's "except Exception as e"
call_failed(op, cause) == Err(<<failure_prefix(op)>> \o cause)

\* mutant of own_message: 404 is not told apart from the other statuses
own_message_without_404(op, args, resp) ==
    IF op = "get_swarm_group_history" /\ resp.status = 400
    THEN Some(<<"Bad request to Swarm app: ", resp.body.text>>)
    ELSE None

\* the status codes the tool answers with a message of their own
own_message(op, args, resp) ==
    IF op = "get_swarm_group_history" /\ resp.status = 400
    THEN Some(<<"Bad request to Swarm app: ", resp.body.text>>)
    ELSE IF resp.status = 404
    THEN Some(not_found_message(op, args))
    ELSE None

\* the "data" of a proxy tool's success envelope
proxy_data(op, resp) ==
    IF op \in RawOps THEN resp.body.text
    ELSE IF op = "get_user_sprint_hours" THEN hours_summary(resp.body.value)
    ELSE resp.body.value

\* what building "data" raises, <<>> if nothing
proxy_data_raises(op, resp) ==
    IF op \in RawOps THEN <<>>
    ELSE IF json_raises(resp) THEN <<"JSONDecodeError">>
    ELSE IF op = "get_user_sprint_hours" /\ resp.body.value.t # "object"
    THEN <<"AttributeError">>
    ELSE <<>>

\* the fifteen forwarding tools: one try around everything after the URL
proxy_outcome(op, args, resp) ==
    IF resp.kind = "exception"
    THEN Returned(call_failed(op, <<resp.cause>>), FALSE, NoLocals, 0)
    ELSE IF own_message(op, args, resp) # None
    THEN Returned(Err(own_message(op, args, resp)[1]), FALSE, NoLocals, 0)
    ELSE IF raise_for_status_raises(resp)
    THEN Returned(call_failed(op, StatusError(resp)), FALSE, NoLocals, 0)
    ELSE IF proxy_data_raises(op, resp) # <<>>
    THEN Returned(call_failed(op, proxy_data_raises(op, resp)), FALSE, NoLocals, 0)
    ELSE Returned(Ok(proxy_data(op, resp)), FALSE, NoLocals, 0)

\* mutant of parse_failed: the handler hands back what had been accumulated
parse_failed_with_partial(op, cause, locals) ==
    [ok |-> FALSE, error |-> <<parse_prefix(op), cause>>, data |-> locals]

\* the envelope of a view's second "except Exception as e"
parse_failed(op, cause, locals) == Err(<<parse_prefix(op), cause>>)

\* mutant of view_project: a view that finds nothing reports a failure
view_project_rejecting_empty(op, args, text, locals0) ==
    LET parsed == text_string_to_metric_families(text)
        locals == for_families(op, args, locals0, parsed.families, 1)
    IN  IF parsed.error \/ locals = locals0
        THEN Returned(Err(<<parse_prefix(op), "no data">>), TRUE, locals,
                      parsed.consumed)
        ELSE Returned(Ok(view_data(op, args, locals)), TRUE, locals,
                      parsed.consumed)

\* the second try of a view: parse, loop, sort, truncate, build the envelope
view_project(op, args, text, locals0) ==
    LET parsed == text_string_to_metric_families(text)
        locals == for_families(op, args, locals0, parsed.families, 1)
    IN  IF parsed.error
        THEN Returned(parse_failed(op, "ValueError", locals), TRUE, locals,
                      parsed.consumed)
        ELSE Returned(Ok(view_data(op, args, locals)), TRUE, locals,
                      parsed.consumed)

\* the seven views: a try around the fetch, the set-up of the locals
\* outside any try, a second try around the parse and the projection
view_outcome(op, args, resp, locals0) ==
    IF resp.kind = "exception"
    THEN Returned(call_failed(op, <<resp.cause>>), FALSE, NoLocals, 0)
    ELSE IF raise_for_status_raises(resp)
    THEN Returned(call_failed(op, StatusError(resp)), FALSE, NoLocals, 0)
    ELSE IF normalise_raises(op, args)
    THEN Raised("AttributeError")
    ELSE view_project(op, args, resp.body.text, locals0)

\* ------------------------------------------------------------------------
\* State
\* ------------------------------------------------------------------------
\* config     the four module-level base URLs, read from the environment at import
\* pc         per invocation: "idle", "awaiting" (suspended in client.get),
\*            "returned" (an envelope went back), "raised" (an exception did)
\* op, args   the tool invoked and its arguments
\* request    the GET it issued;  fetches  how many it has issued
\* response   what client.get produced
\* parsing    whether a view entered its second try
\* locals     a view's accumulators when it ended
\* consumed   the lines of the document its parser had read when it ended
\* overlap    whether another invocation was suspended when this one ended
\* result     the envelope returned;  exception  what escaped instead

VARIABLES config, pc, op, args, request, fetches, response, parsing, locals,
          consumed, overlap, result, exception

vars == <<config, pc, op, args, request, fetches, response, parsing, locals,
          consumed, overlap, result, exception>>

\* the coroutines that can be in flight together
Slots == {1, 2}

StartupConfig ==
    [ P4DIFF_BASE_URL |-> "https://p4streamdiff.tib.ad.ea.com",
      SPRINT_INSIGHTS_BASE_URL |-> "https://sprintinsightsapp.tib.ad.ea.com",
      SKILL_MATRIX_BASE_URL |-> "http://maddenskillmatrix-app.ea.svc.cluster.local:9100",
      SWARM_METRICS_BASE_URL |-> "http://thehiveapp-app.ea.svc.cluster.local:5020" ]

NoArgs == [unset |-> TRUE]

NoRequest == [unset |-> TRUE]

NoResponse == [unset |-> TRUE]

Init ==
    /\ config = StartupConfig
    /\ pc = [i \in Slots |-> "idle"]
    /\ op = [i \in Slots |-> ""]
    /\ args = [i \in Slots |-> NoArgs]
    /\ request = [i \in Slots |-> NoRequest]
    /\ fetches = [i \in Slots |-> 0]
    /\ response = [i \in Slots |-> NoResponse]
    /\ parsing = [i \in Slots |-> FALSE]
    /\ locals = [i \in Slots |-> NoLocals]
    /\ consumed = [i \in Slots |-> 0]
    /\ overlap = [i \in Slots |-> FALSE]
    /\ result = [i \in Slots |-> NoResult]
    /\ exception = [i \in Slots |-> ""]

\* url = f"{BASE_URL}/path" and the params of client.get
build_request(o, a) ==
    [url |-> <<config[base_url(o)], path(o)>>, params |-> query_params(o, a)]

\* mutant of gets_issued: the coverage view fetches once per family it reads
gets_issued_per_family(o) == IF o = "get_initiative_coverage" THEN 2 ELSE 1

\* the client.get calls in the body of a tool
gets_issued(o) == IF o \in Ops THEN 1 ELSE 0

\* A tool is invoked and runs up to its "await client.get(...)".
Call(i, o, a) ==
    /\ pc[i] = "idle"
    /\ pc' = [pc EXCEPT ![i] = "awaiting"]
    /\ op' = [op EXCEPT ![i] = o]
    /\ args' = [args EXCEPT ![i] = a]
    /\ request' = [request EXCEPT ![i] = build_request(o, a)]
    /\ fetches' = [fetches EXCEPT ![i] = @ + gets_issued(o)]
    /\ UNCHANGED <<config, response, parsing, locals, consumed, overlap, result,
                   exception>>

CallProxy(i, argsets) ==
    \E o \in ProxyOps : \E a \in argsets[o] : Call(i, o, a)

CallView(i, argsets) ==
    \E o \in Views : \E a \in argsets[o] : Call(i, o, a)

\* mutant of entry_locals: module-level accumulators, one set per tool, left
\* as the tool's previous invocation filled them
shared_locals(i) ==
    LET earlier == {j \in Slots \ {i} : op[j] = op[i] /\ locals[j] # NoLocals} IN
    IF earlier = {} THEN view_locals(op[i], args[i])
    ELSE locals[CHOOSE j \in earlier : TRUE]

\* the accumulators a view starts from: created inside the call
entry_locals(i) == view_locals(op[i], args[i])

\* The coroutine resumes with what client.get produced and runs to its end.
Finish(i, resp, outcome) ==
    /\ response' = [response EXCEPT ![i] = resp]
    /\ pc' = [pc EXCEPT ![i] = outcome.pc]
    /\ result' = [result EXCEPT ![i] = outcome.result]
    /\ exception' = [exception EXCEPT ![i] = outcome.exception]
    /\ parsing' = [parsing EXCEPT ![i] = outcome.parsing]
    /\ locals' = [locals EXCEPT ![i] = outcome.locals]
    /\ consumed' = [consumed EXCEPT ![i] = outcome.consumed]
    /\ overlap' = [overlap EXCEPT ![i] = \E j \in Slots \ {i} : pc[j] = "awaiting"]
    /\ UNCHANGED <<config, op, args, request, fetches>>

\* client.get answers a forwarding tool
ProxyAnswered(i, docs) ==
    /\ pc[i] = "awaiting"
    /\ op[i] \in ProxyOps
    /\ \E resp \in Responses(op[i], docs) :
          Finish(i, resp, proxy_outcome(op[i], args[i], resp))

\* client.get answers a view
ViewAnswered(i, docs) ==
    /\ pc[i] = "awaiting"
    /\ op[i] \in Views
    /\ \E resp \in Responses(op[i], docs) :
          Finish(i, resp, view_outcome(op[i], args[i], resp, entry_locals(i)))

\* client.get raises: no answer, a timeout
TransportFailed(i) ==
    /\ pc[i] = "awaiting"
    /\ \E c \in TransportErrors :
          Finish(i, Exception(c),
                 IF op[i] \in Views
                 THEN view_outcome(op[i], args[i], Exception(c), NoLocals)
                 ELSE proxy_outcome(op[i], args[i], Exception(c)))

\* The inbound call is cancelled while suspended in client.get:
\* CancelledError is no Exception, so neither handler catches it.
Cancelled(i) ==
    /\ pc[i] = "awaiting"
    /\ pc' = [pc EXCEPT ![i] = "cancelled"]
    /\ exception' = [exception EXCEPT ![i] = "CancelledError"]
    /\ overlap' = [overlap EXCEPT ![i] = \E j \in Slots \ {i} : pc[j] = "awaiting"]
    /\ UNCHANGED <<config, op, args, request, fetches, response, parsing, locals,
                   consumed, result>>

AllArgs == [o \in Ops |-> Args(o)]

AllDocs == [skill |-> Docs(SkillLines, MaxLines), swarm |-> Docs(SwarmLines, MaxLines)]

\* one invocation at a time
Next ==
    \/ CallProxy(1, AllArgs)
    \/ CallView(1, AllArgs)
    \/ ProxyAnswered(1, AllDocs)
    \/ ViewAnswered(1, AllDocs)
    \/ TransportFailed(1)
    \/ Cancelled(1)

Spec == Init /\ [][Next]_vars

\* ------------------------------------------------------------------------
\* Properties
\* ------------------------------------------------------------------------

Is2xx(resp) == resp.kind = "http" /\ resp.status >= 200 /\ resp.status < 300

\* the key is missing from the dict, or its value is None
NullOrAbsent(d, key) == key \notin DOMAIN d \/ d[key] = None

\* C1: every envelope a tool returns, whatever its outbound call produced,
\* has its "data" key and no error when ok is true, and a non-null error
\* message and no data when ok is false; none carries both, none neither.
EnvelopeInvariant ==
    \A i \in Slots :
        pc[i] = "returned" =>
            LET e == result[i] IN
            /\ "ok" \in DOMAIN e
            /\ e.ok => "data" \in DOMAIN e /\ NullOrAbsent(e, "error")
            /\ ~ e.ok => /\ NullOrAbsent(e, "data")
                         /\ "error" \in DOMAIN e
                         /\ e.error # None
            /\ ("data" \in DOMAIN e) # ("error" \in DOMAIN e)

\* a view answered 200 whose text has a line the parser rejects
EnvelopeAfterParseError ==
    \E i \in Slots :
        /\ pc[i] = "returned"
        /\ op[i] = "get_swarm_group_summary"
        /\ Is2xx(response[i])
        /\ parsing[i]
        /\ ~ result[i].ok
        /\ DOMAIN result[i] = {"ok", "error"}

\* C2: every invocation ends by returning an envelope; no failure raised at
\* any step leaves the tool as an exception.
NothingPropagates ==
    \A i \in Slots : pc[i] # "raised" /\ (pc[i] = "returned" => "ok" \in DOMAIN result[i])

\* C3 as stated: a forwarding tool answers in exactly three ways: 404 gives
\* the not-found message, any other failure the message with the tool's
\* prefix, success the upstream JSON body unchanged.
ProxyThreeWays ==
    \A i \in Slots :
        (pc[i] = "returned" /\ op[i] \in ProxyOps \ RawOps) =>
            LET r == response[i]
                e == result[i]
            IN  IF r.kind = "http" /\ r.status = 404
                THEN e = Err(not_found_message(op[i], args[i]))
                ELSE IF ~ Is2xx(r) \/ r.body.fmt # "json"
                THEN ~ e.ok /\ Head(e.error) = failure_prefix(op[i])
                ELSE e = Ok(r.body.value)

\* C3 amended: as above, except that get_swarm_group_history answers 400
\* with a message of its own carrying the upstream text, and that
\* get_user_sprint_hours returns only the ten summary fields of the body (a
\* missing field as None) and fails with its prefix when the body is no
\* JSON object; the two raw tools return the text unchanged.
ProxyEnvelopeRule ==
    \A i \in Slots :
        (pc[i] = "returned" /\ op[i] \in ProxyOps) =>
            LET r == response[i]
                e == result[i]
                o == op[i]
            IN  IF r.kind = "http" /\ r.status = 400 /\ o = "get_swarm_group_history"
                THEN e = Err(<<"Bad request to Swarm app: ", r.body.text>>)
                ELSE IF r.kind = "http" /\ r.status = 404
                THEN e = Err(not_found_message(o, args[i]))
                ELSE IF ~ Is2xx(r)
                THEN ~ e.ok /\ Head(e.error) = failure_prefix(o)
                ELSE IF o \in RawOps
                THEN e = Ok(r.body.text)
                ELSE IF r.body.fmt # "json"
                THEN ~ e.ok /\ Head(e.error) = failure_prefix(o)
                ELSE IF o # "get_user_sprint_hours"
                THEN e = Ok(r.body.value)
                ELSE IF r.body.value.t # "object"
                THEN ~ e.ok /\ Head(e.error) = failure_prefix(o)
                ELSE /\ e.ok
                     /\ DOMAIN e.data = hours_fields
                     /\ \A f \in hours_fields :
                           e.data[f] = IF f \in DOMAIN r.body.value.fields
                                       THEN Some(r.body.value.fields[f])
                                       ELSE None

\* get_swarm_group_history answered 400
HistoryBadRequest ==
    \E i \in Slots :
        /\ pc[i] = "returned"
        /\ op[i] = "get_swarm_group_history"
        /\ response[i].kind = "http" /\ response[i].status = 400
        /\ ~ result[i].ok
        /\ Head(result[i].error) = "Bad request to Swarm app: "

\* the document a 2xx answer carried
TextOf(i) == response[i].body.text

HasMalformed(text) == \E k \in 1..Len(text) : text[k].kind = "malformed"

IsWellFormed(line) == line.kind # "malformed"

\* a view that got a 2xx answer and returned an envelope
ViewAnswered2xx(i) ==
    pc[i] = "returned" /\ op[i] \in Views /\ Is2xx(response[i])

\* C4 as stated: a line that fails to parse is skipped; the view returns
\* ok=true with what the well-formed lines before and after it give.
MalformedLineSkipped ==
    \A i \in Slots :
        (ViewAnswered2xx(i) /\ HasMalformed(TextOf(i))) =>
            /\ result[i].ok
            /\ result[i] = view_project(op[i], args[i],
                                        SelectSeq(TextOf(i), IsWellFormed),
                                        view_locals(op[i], args[i])).result

\* C4 amended: a line that fails to parse aborts the document; the view
\* returns ok=false with its "Error parsing ..." message and no data, so
\* none of the well-formed samples before or after the line is returned;
\* a text without such a line gives ok=true.
MalformedLineAborts ==
    \A i \in Slots :
        ViewAnswered2xx(i) =>
            IF HasMalformed(TextOf(i))
            THEN /\ DOMAIN result[i] = {"ok", "error"}
                 /\ ~ result[i].ok
                 /\ result[i].error = <<parse_prefix(op[i]), "ValueError">>
            ELSE result[i].ok

\* top contributors over a text with a matching sample on either side of a
\* malformed line
MalformedBetweenMatches ==
    \E i \in Slots :
        /\ ViewAnswered2xx(i)
        /\ op[i] = "get_swarm_group_top_contributors"
        /\ args[i].group = s_g1
        /\ Len(TextOf(i)) = 3
        /\ TextOf(i)[1].kind = "sample" /\ TextOf(i)[1].name = "group_top_contributor"
        /\ TextOf(i)[2].kind = "malformed"
        /\ TextOf(i)[3].kind = "sample" /\ TextOf(i)[3].name = "group_top_contributor"
        /\ ~ result[i].ok

\* C5: partial work is never returned: a failed envelope has no data even
\* when samples had been accumulated, a successful one is built only after
\* the parser has read the whole document, and an invocation that raised
\* or was cancelled returns nothing.
PartialWorkNeverReturned ==
    \A i \in Slots :
        /\ (pc[i] = "returned" /\ op[i] \in Views) =>
              /\ ~ result[i].ok => "data" \notin DOMAIN result[i]
              /\ result[i].ok => /\ parsing[i]
                                 /\ consumed[i] = Len(TextOf(i))
        /\ pc[i] \in {"raised", "cancelled"} => result[i] = NoResult

\* the skill profile failed after it had accumulated an entry
PartialWorkDiscarded ==
    \E i \in Slots :
        /\ pc[i] = "returned"
        /\ op[i] = "get_submitter_skill_profile"
        /\ parsing[i]
        /\ consumed[i] > 0
        /\ locals[i].by_initiative # <<>>
        /\ ~ result[i].ok

\* str.strip() stated by positions: what lies between the first and the
\* last character that is no whitespace
Trimmed(s) ==
    LET solid == {k \in 1..Len(s) : s[k] \notin Whitespace} IN
    IF solid = {} THEN <<>>
    ELSE SubSeq(s, CHOOSE k \in solid : \A j \in solid : k <= j,
                   CHOOSE k \in solid : \A j \in solid : k >= j)

Label(line, key) == IF key \in DOMAIN line.labels THEN Some(line.labels[key]) ELSE None

\* the sample lines a view selects, stated per view from its filters
Selected(o, a, line) ==
    /\ line.kind = "sample"
    /\ CASE o = "get_submitter_skill_profile" ->
              /\ line.name \in {"proficiency_by_user_initiative", "proficiency_by_user_epic"}
              /\ Label(line, "submitter") = Some(a.submitter)
         [] o = "get_initiative_coverage" ->
              /\ line.name \in {"submitter_experience_by_initiative", "initiative_coverage"}
              /\ Label(line, "initiative") = Some(Trimmed(a.initiative[1]))
              /\ a.epic_team = s_empty \/ Label(line, "epic_team") = Some(a.epic_team)
         [] o = "find_best_submitters_for_initiative" ->
              /\ line.name = "proficiency_by_user_initiative"
              /\ Label(line, "initiative") = Some(Trimmed(a.initiative[1]))
              /\ line.value >= a.min_level
         [] o = "get_epic_expertise" ->
              /\ line.name \in {"submitter_experience_by_epic", "proficiency_by_user_epic"}
              /\ Label(line, "epic") = Some(IF a.epic = s_empty THEN s_Unknown ELSE a.epic)
         [] o = "get_swarm_group_summary" ->
              /\ line.name \in DOMAIN summary_fields
              /\ Label(line, "group") = Some(a.group)
         [] o = "get_swarm_group_top_contributors" ->
              /\ line.name = "group_top_contributor"
              /\ Label(line, "group") = Some(a.group)
         [] o = "get_swarm_group_daily_snapshot" ->
              /\ line.name \in DOMAIN snapshot_fields
              /\ Label(line, "group") = Some(a.group)

NoneSelected(i) ==
    \A k \in 1..Len(TextOf(i)) : ~ Selected(op[i], args[i], TextOf(i)[k])

\* the empty answer of each view
EmptyData(o, d) ==
    CASE o = "get_submitter_skill_profile" -> d.by_initiative = <<>> /\ d.by_epic = <<>>
      [] o = "get_initiative_coverage" ->
           DOMAIN d.total_submitters_by_team = {} /\ d.coverage_by_submitter = <<>>
      [] o = "find_best_submitters_for_initiative" -> d.candidates = <<>>
      [] o = "get_epic_expertise" -> d.total_submitters = 0 /\ d.submitter_levels = <<>>
      [] o = "get_swarm_group_top_contributors" -> d.top_contributors = <<>>
      [] o \in {"get_swarm_group_summary", "get_swarm_group_daily_snapshot"} ->
           \A f \in DOMAIN d \ {"group"} : d[f] = None

\* C6 as stated: with the text fetched and no sample passing the filters the
\* view returns ok=true with empty lists, empty mapping, null fields, 0
\* submitters; ok=false only when the text could not be obtained.
ZeroMatchesIsSuccess ==
    \A i \in Slots :
        (pc[i] = "returned" /\ op[i] \in Views) =>
            /\ (Is2xx(response[i]) /\ NoneSelected(i)) =>
                  result[i].ok /\ EmptyData(op[i], result[i].data)
            /\ ~ result[i].ok => ~ Is2xx(response[i])

\* C6 amended: with the text fetched and parsed without error and no sample
\* passing the filters the view returns ok=true with the empty answer;
\* ok=false is returned only when the text could not be obtained or a line
\* of it could not be parsed, never because there were zero matches.
ZeroMatchesIsSuccessWhenParsed ==
    \A i \in Slots :
        (pc[i] = "returned" /\ op[i] \in Views) =>
            /\ (Is2xx(response[i]) /\ ~ HasMalformed(TextOf(i)) /\ NoneSelected(i)) =>
                  result[i].ok /\ EmptyData(op[i], result[i].data)
            /\ ~ result[i].ok => (~ Is2xx(response[i]) \/ HasMalformed(TextOf(i)))

\* epic expertise for the unset epic over a text that has samples of
\* another epic
EpicWithoutMatches ==
    \E i \in Slots :
        /\ ViewAnswered2xx(i)
        /\ op[i] = "get_epic_expertise"
        /\ args[i].epic = s_empty
        /\ Len(TextOf(i)) > 0
        /\ \A k \in 1..Len(TextOf(i)) :
              TextOf(i)[k].kind = "sample"
              /\ TextOf(i)[k].name = "submitter_experience_by_epic"
        /\ result[i].ok
        /\ result[i].data.total_submitters = 0
        /\ result[i].data.submitter_levels = <<>>

\* C7: an invocation issues one GET, never a second: none before the call,
\* exactly one from then on, also after the parse and the projection; when
\* the GET fails the invocation returns ok=false.
OneFetchNoRetry ==
    \A i \in Slots :
        /\ fetches[i] = IF pc[i] = "idle" THEN 0 ELSE 1
        /\ (pc[i] \in {"returned", "raised"} /\ response[i].kind = "exception") =>
              pc[i] = "returned" /\ ~ result[i].ok

\* a view whose GET timed out
TimeoutNotRetried ==
    \E i \in Slots :
        /\ pc[i] = "returned"
        /\ op[i] = "get_initiative_coverage"
        /\ response[i] = Exception("ReadTimeout")
        /\ fetches[i] = 1
        /\ ~ result[i].ok

\* C8: in a view any answer that is not 2xx (404 included) and any
\* transport error is a fetch failure: ok=false with the message naming the
\* upstream whose fetch failed, and the parse is never entered; parsing
\* happens only after a 2xx answer.
FetchBeforeParse ==
    \A i \in Slots :
        (pc[i] \in {"returned", "raised"} /\ op[i] \in Views) =>
            /\ ~ Is2xx(response[i]) =>
                  /\ pc[i] = "returned"
                  /\ DOMAIN result[i] = {"ok", "error"}
                  /\ ~ result[i].ok
                  /\ Head(result[i].error) =
                        IF op[i] \in SkillViews
                        THEN "Failed to fetch Skill Matrix metrics: "
                        ELSE "Failed to fetch Swarm metrics: "
                  /\ ~ parsing[i]
                  /\ consumed[i] = 0
                  /\ locals[i] = NoLocals
            /\ parsing[i] => Is2xx(response[i])

\* a view answered 404
ViewGot404 ==
    \E i \in Slots :
        /\ pc[i] = "returned"
        /\ op[i] = "get_swarm_group_summary"
        /\ response[i].kind = "http" /\ response[i].status = 404
        /\ ~ parsing[i]
        /\ result[i].error = <<"Failed to fetch Swarm metrics: ", "HTTPStatusError ", "404">>

\* str.lower() on the letters the model uses
LowerChar(c) ==
    CASE c = "F" -> "f"
      [] c = "T" -> "t"
      [] c = "E" -> "e"
      [] c = "U" -> "u"
      [] OTHER -> c

Lower(s) == [k \in 1..Len(s) |-> LowerChar(s[k])]

\* both sides trimmed and lower-cased
TrimLower(s) == Lower(Trimmed(s))

\* the lines of the text that satisfy P
Count(text, P(_)) == Cardinality({k \in 1..Len(text) : P(text[k])})

\* the sample of the family carries an initiative label that equals the
\* wanted value once both have gone through norm
InitiativeMatches(line, family, wanted, norm(_)) ==
    /\ line.kind = "sample"
    /\ line.name = family
    /\ "initiative" \in DOMAIN line.labels
    /\ norm(line.labels.initiative) = norm(wanted)

TeamPasses(line, epic_team) ==
    epic_team = s_empty \/ Label(line, "epic_team") = Some(epic_team)

\* an initiative view that returned its data
InitiativeViewOk(i) ==
    /\ pc[i] = "returned"
    /\ op[i] \in {"get_initiative_coverage", "find_best_submitters_for_initiative"}
    /\ result[i].ok

\* C10 as stated: the two initiative views compare the requested initiative
\* and the sample's initiative label after trimming and lower-casing both,
\* so every sample whose label agrees with the request up to surrounding
\* whitespace and case is in the result.
InitiativeTrimLower ==
    \A i \in Slots :
        InitiativeViewOk(i) =>
            LET wanted == args[i].initiative[1]
                CoverageLine(l) ==
                    /\ InitiativeMatches(l, "initiative_coverage", wanted, TrimLower)
                    /\ TeamPasses(l, args[i].epic_team)
                CandidateLine(l) ==
                    /\ InitiativeMatches(l, "proficiency_by_user_initiative", wanted,
                                         TrimLower)
                    /\ l.value >= args[i].min_level
            IN  IF op[i] = "get_initiative_coverage"
                THEN Len(result[i].data.coverage_by_submitter)
                        = Count(TextOf(i), CoverageLine)
                ELSE Len(result[i].data.candidates) = Count(TextOf(i), CandidateLine)

Same(s) == s

\* C10 amended: the two initiative views trim the requested initiative of
\* leading and trailing whitespace and do not lower-case it; the sample's
\* initiative label is compared as it is, byte for byte.  A request for
\* "Foo " selects the samples labelled initiative="Foo" and no sample
\* labelled "foo".
InitiativeStripOnly ==
    \A i \in Slots :
        InitiativeViewOk(i) =>
            LET wanted == Trimmed(args[i].initiative[1])
                CoverageLine(l) ==
                    /\ InitiativeMatches(l, "initiative_coverage", wanted, Same)
                    /\ TeamPasses(l, args[i].epic_team)
                CandidateLine(l) ==
                    /\ InitiativeMatches(l, "proficiency_by_user_initiative", wanted,
                                         Same)
                    /\ l.value >= args[i].min_level
            IN  /\ result[i].data.initiative = wanted
                /\ IF op[i] = "get_initiative_coverage"
                   THEN /\ Len(result[i].data.coverage_by_submitter)
                              = Count(TextOf(i), CoverageLine)
                        /\ \A k \in 1..Len(result[i].data.coverage_by_submitter) :
                              result[i].data.coverage_by_submitter[k].initiative
                                  = Some(wanted)
                   ELSE /\ Len(result[i].data.candidates)
                              = Count(TextOf(i), CandidateLine)
                        /\ \A k \in 1..Len(result[i].data.candidates) :
                              result[i].data.candidates[k].initiative = Some(wanted)

\* coverage requested for "Foo " over a text with one sample labelled "Foo"
\* and one labelled "foo": only the first is returned
FooSpaceSelectsFooOnly ==
    \E i \in Slots :
        /\ InitiativeViewOk(i)
        /\ op[i] = "get_initiative_coverage"
        /\ args[i].initiative = Some(s_FooSp)
        /\ args[i].epic_team = s_empty
        /\ \E k \in 1..Len(TextOf(i)) :
              InitiativeMatches(TextOf(i)[k], "initiative_coverage", s_Foo, Same)
        /\ \E k \in 1..Len(TextOf(i)) :
              InitiativeMatches(TextOf(i)[k], "initiative_coverage", s_foo, Same)
        /\ Len(result[i].data.coverage_by_submitter) = 1

\* ------------------------------------------------------------------------
\* Two invocations in flight together
\* ------------------------------------------------------------------------

ConcSkillLines ==
    { Sample("proficiency_by_user_initiative",
             [submitter |-> s_alice, initiative |-> s_foo, epic_team |-> s_T1], 3),
      Sample("proficiency_by_user_epic",
             [submitter |-> s_alice, epic |-> s_E1, epic_team |-> s_T1], 4),
      Malformed }

ConcSwarmLines ==
    { Sample("group_top_contributor", [group |-> s_g1, contributor |-> s_alice], 5),
      Sample("group_total_reviews", [group |-> s_g1], 7),
      Malformed }

ConcDocs ==
    [skill |-> Docs(ConcSkillLines, ConcMaxLines),
     swarm |-> Docs(ConcSwarmLines, ConcMaxLines)]

\* the arguments used when two invocations run together: optional filters
\* unset, defaults for min_level and limit
ConcArg(a) ==
    /\ "submitter" \in DOMAIN a => a.submitter = s_alice
    /\ "initiative" \in DOMAIN a => a.initiative \in {Some(s_foo), None}
    /\ "epic_team" \in DOMAIN a => a.epic_team = s_empty
    /\ "min_level" \in DOMAIN a => a.min_level = 3
    /\ "epic" \in DOMAIN a => a.epic = s_E1
    /\ "limit" \in DOMAIN a => a.limit = 5
    /\ "status_filter" \in DOMAIN a => a.status_filter = ""

ConcArgs == [o \in Ops |-> {a \in Args(o) : ConcArg(a)}]

NextConc ==
    \E i \in Slots :
        \/ CallProxy(i, ConcArgs)
        \/ CallView(i, ConcArgs)
        \/ ProxyAnswered(i, ConcDocs)
        \/ ViewAnswered(i, ConcDocs)
        \/ TransportFailed(i)
        \/ Cancelled(i)

SpecConc == Init /\ [][NextConc]_vars

\* the outcome of the tool run on its own on the same arguments and answer
run_alone(o, a, resp) ==
    IF o \in Views
    THEN view_outcome(o, a, resp, view_locals(o, a))
    ELSE proxy_outcome(o, a, resp)

GroupMaxLines == 3

\* "limit: int = 5"
default_limit == 5

s_carol == <<"c", "a">>

GroupLines ==
    { Sample("group_top_contributor", [group |-> s_g1, contributor |-> s_alice], 5),
      Sample("group_top_contributor", [group |-> s_g1, contributor |-> s_bob], 5),
      Sample("group_top_contributor", [group |-> s_g1, contributor |-> s_carol], 3),
      Sample("group_top_contributor", [group |-> s_g2, contributor |-> s_alice], 9),
      Sample("group_top_contributor", [contributor |-> s_bob], 8),
      Sample("group_total_reviews", [group |-> s_g1], 7),
      Sample("group_total_reviews", [group |-> s_g1], 9),
      Sample("group_total_reviews", [group |-> s_g2], 4),
      Sample("group_total_reviews", EmptyDict, 6),
      Sample("group_daily_total_reviews", [group |-> s_g1], 1),
      Sample("group_open_reviews", [group |-> s_g1], 2) }

GroupDocs == [skill |-> {}, swarm |-> Docs(GroupLines, GroupMaxLines)]

\* the argument sets of the tools in ops, no call of any other tool
Only(ops, argsets) == [o \in Ops |-> IF o \in ops THEN argsets[o] ELSE {}]

GroupArgs ==
    Only(SwarmViews,
         [o \in Ops |->
            IF o = "get_swarm_group_top_contributors"
            THEN { [group |-> g, limit |-> l] :
                     g \in {s_g1, s_g2}, l \in {-1, 0, 1, 2, default_limit} }
            ELSE { [group |-> g] : g \in {s_g1, s_g2} }])

NextGroup ==
    \/ CallView(1, GroupArgs)
    \/ ViewAnswered(1, GroupDocs)
    \/ TransportFailed(1)
    \/ Cancelled(1)

SpecGroup == Init /\ [][NextGroup]_vars

\* a view that returned ok=true
ViewOk(i, o) == pc[i] = "returned" /\ op[i] = o /\ result[i].ok

\* the positions of the document holding a sample of the metric whose label
\* key is present with the wanted value
Hits(text, metric, key, wanted) ==
    { k \in 1..Len(text) :
        /\ text[k].kind = "sample"
        /\ text[k].name = metric
        /\ key \in DOMAIN text[k].labels
        /\ text[k].labels[key] = wanted }

\* place of position m among the positions M when ordered by value
\* descending, equal values in document order
RankDesc(text, M, m) ==
    1 + Cardinality({ n \in M : \/ text[n].value > text[m].value
                                \/ text[n].value = text[m].value /\ n < m })

ContributorEntry(line) ==
    [group |-> Label(line, "group"),
     contributor |-> Label(line, "contributor"),
     activity_count |-> line.value]

Min(a, b) == IF a < b THEN a ELSE b

Max(a, b) == IF a > b THEN a ELSE b

\* C13: top contributors are the group_top_contributor samples whose group
\* label equals the requested group exactly, ordered by activity_count
\* descending with ties in document order, cut to the first limit entries:
\* the returned list is a prefix of that order, of length min(limit, n) for
\* a limit >= 0.
TopKStable ==
    \A i \in Slots :
        ViewOk(i, "get_swarm_group_top_contributors") =>
            LET text == TextOf(i)
                M == Hits(text, "group_top_contributor", "group", args[i].group)
                R == result[i].data.top_contributors
            IN  /\ result[i].data.group = args[i].group
                /\ Len(R) <= Cardinality(M)
                /\ args[i].limit >= 0 => Len(R) = Min(args[i].limit, Cardinality(M))
                /\ \A m \in M :
                      RankDesc(text, M, m) <= Len(R) =>
                          R[RankDesc(text, M, m)] = ContributorEntry(text[m])

\* contributors (alice,5), (bob,5), (carol,3) in either order of the tie,
\* limit 2: the two at 5 come back in document order
TieKeptInDocumentOrder ==
    \E i \in Slots :
        /\ ViewOk(i, "get_swarm_group_top_contributors")
        /\ args[i].group = s_g1 /\ args[i].limit = 2
        /\ Len(TextOf(i)) = 3
        /\ TextOf(i)[1].value = 3
        /\ TextOf(i)[2].labels = [group |-> s_g1, contributor |-> s_bob]
        /\ TextOf(i)[3].labels = [group |-> s_g1, contributor |-> s_alice]
        /\ Len(result[i].data.top_contributors) = 2
        /\ result[i].data.top_contributors[1].contributor = Some(s_bob)
        /\ result[i].data.top_contributors[2].contributor = Some(s_alice)

\* C19: for every integer limit, 0 and negative values included, the top
\* contributors returned number at most max(limit, 0); for a limit >= 0 they
\* are the first min(limit, n) entries of the n matching samples in order.
TopKBounded ==
    \A i \in Slots :
        ViewOk(i, "get_swarm_group_top_contributors") =>
            LET text == TextOf(i)
                M == Hits(text, "group_top_contributor", "group", args[i].group)
                R == result[i].data.top_contributors
            IN  /\ Len(R) <= Max(args[i].limit, 0)
                /\ args[i].limit >= 0 =>
                      /\ Len(R) = Min(args[i].limit, Cardinality(M))
                      /\ \A m \in M :
                            RankDesc(text, M, m) <= Len(R) =>
                                R[RankDesc(text, M, m)].contributor
                                    = Label(text[m], "contributor")

\* the greatest position of a non-empty set of positions
Last(hits) == CHOOSE k \in hits : \A j \in hits : j <= k

\* C16: the summary and the daily snapshot return a record with a fixed set
\* of fields, group being the requested group; the field of a metric is
\* null when the document has no sample of that metric whose group label
\* equals the requested group, and otherwise holds the value of the last
\* such sample; nothing else changes a field.
GroupRecordExact ==
    \A i \in Slots :
        \A o \in {"get_swarm_group_summary", "get_swarm_group_daily_snapshot"} :
            ViewOk(i, o) =>
                LET fields == IF o = "get_swarm_group_summary"
                              THEN summary_fields ELSE snapshot_fields
                    d == result[i].data
                IN  /\ DOMAIN d = Range(fields) \cup {"group"}
                    /\ Cardinality(DOMAIN d) =
                          IF o = "get_swarm_group_summary" THEN 10 ELSE 7
                    /\ d.group = args[i].group
                    /\ \A metric \in DOMAIN fields :
                          LET hits == Hits(TextOf(i), metric, "group", args[i].group) IN
                          d[fields[metric]] =
                              IF hits = {} THEN None
                              ELSE Some(TextOf(i)[Last(hits)].value)

\* a summary over total_reviews 7 then 9 for the group and a sample without
\* a group label: the field holds 9
LastSampleWins ==
    \E i \in Slots :
        /\ ViewOk(i, "get_swarm_group_summary")
        /\ args[i].group = s_g1
        /\ Len(TextOf(i)) = 3
        /\ TextOf(i)[1] = Sample("group_total_reviews", [group |-> s_g1], 7)
        /\ TextOf(i)[2] = Sample("group_total_reviews", [group |-> s_g1], 9)
        /\ TextOf(i)[3] = Sample("group_total_reviews", EmptyDict, 6)
        /\ result[i].data.total_reviews = Some(9)
        /\ result[i].data.engagement_rate = None

\* ------------------------------------------------------------------------
\* Initiative coverage on documents with repeated teams and missing labels
\* ------------------------------------------------------------------------

\* longest document served to the coverage view below
CoverageMaxLines == 3

CoverageLines ==
    { Sample("submitter_experience_by_initiative",
             [initiative |-> s_Foo, epic_team |-> s_T1], 2),
      Sample("submitter_experience_by_initiative",
             [initiative |-> s_Foo, epic_team |-> s_T1], 6),
      Sample("submitter_experience_by_initiative",
             [initiative |-> s_Foo, epic_team |-> s_T2], 3),
      Sample("submitter_experience_by_initiative", [initiative |-> s_Foo], 4),
      Sample("submitter_experience_by_initiative",
             [initiative |-> s_foo, epic_team |-> s_T1], 9),
      Sample("initiative_coverage",
             [submitter |-> s_alice, initiative |-> s_Foo, epic_team |-> s_T1], 50),
      Sample("initiative_coverage",
             [submitter |-> s_bob, initiative |-> s_Foo, epic_team |-> s_T2], 20),
      Sample("initiative_coverage",
             [submitter |-> s_bob, initiative |-> s_Foo], 30),
      Sample("initiative_coverage",
             [submitter |-> s_alice, initiative |-> s_foo, epic_team |-> s_T1], 70),
      Sample("proficiency_by_user_initiative",
             [submitter |-> s_alice, initiative |-> s_Foo, epic_team |-> s_T1], 3) }

CoverageDocs == [skill |-> Docs(CoverageLines, CoverageMaxLines), swarm |-> {}]

CoverageArgs ==
    Only({"get_initiative_coverage"},
         [o \in Ops |->
            { [initiative |-> ini, epic_team |-> t] :
                ini \in {Some(s_Foo), Some(s_FooSp)}, t \in {s_empty, s_T1} }])

NextCoverage ==
    \/ CallView(1, CoverageArgs)
    \/ ViewAnswered(1, CoverageDocs)
    \/ TransportFailed(1)
    \/ Cancelled(1)

SpecCoverage == Init /\ [][NextCoverage]_vars

\* the positions of the document that hold a sample of the family labelled
\* with the requested initiative (surrounding whitespace of the request
\* removed), whatever their other labels
OfInitiative(i, family) ==
    Hits(TextOf(i), family, "initiative", Trimmed(args[i].initiative[1]))

HasLabel(line, key) == key \in DOMAIN line.labels

\* C11: in the coverage view an unset epic_team ("") accepts every sample of
\* the requested initiative, with or without an epic_team label, in both
\* families; epic_team = X accepts no sample without the label and a sample
\* with it only when its value is X.
MissingLabelIsNotEmpty ==
    \A i \in Slots :
        ViewOk(i, "get_initiative_coverage") =>
            LET text == TextOf(i)
                X == args[i].epic_team
                Accepted(family) ==
                    IF X = s_empty
                    THEN OfInitiative(i, family)
                    ELSE { k \in OfInitiative(i, family) :
                             HasLabel(text[k], "epic_team")
                             /\ text[k].labels.epic_team = X }
                list == result[i].data.coverage_by_submitter
                teams == DOMAIN result[i].data.total_submitters_by_team
            IN  /\ Len(list) = Cardinality(Accepted("initiative_coverage"))
                /\ teams = { Label(text[k], "epic_team") :
                               k \in Accepted("submitter_experience_by_initiative") }
                /\ X # s_empty =>
                      /\ teams \subseteq {Some(X)}
                      /\ \A j \in 1..Len(list) : list[j].epic_team = Some(X)

\* epic_team = T1 over a document whose coverage samples for the initiative
\* are one of T1, one of T2 and one without the label: only T1's comes back
UnlabelledSampleRejected ==
    \E i \in Slots :
        /\ ViewOk(i, "get_initiative_coverage")
        /\ args[i].epic_team = s_T1
        /\ Len(TextOf(i)) = 3
        /\ \A k \in 1..3 : TextOf(i)[k].name = "initiative_coverage"
        /\ \A k \in 1..3 : TextOf(i)[k].labels.initiative = s_Foo
        /\ HasLabel(TextOf(i)[1], "epic_team") /\ TextOf(i)[1].labels.epic_team = s_T2
        /\ ~ HasLabel(TextOf(i)[2], "epic_team")
        /\ HasLabel(TextOf(i)[3], "epic_team") /\ TextOf(i)[3].labels.epic_team = s_T1
        /\ Len(result[i].data.coverage_by_submitter) = 1
        /\ result[i].data.coverage_by_submitter[1].epic_team = Some(s_T1)

\* the samples of the family that pass both filters of the coverage view
Passing(i, family) ==
    { k \in OfInitiative(i, family) : TeamPasses(TextOf(i)[k], args[i].epic_team) }

CoverageEntry(line) ==
    [submitter |-> Label(line, "submitter"),
     initiative |-> Label(line, "initiative"),
     epic_team |-> Label(line, "epic_team"),
     coverage_pct |-> line.value]

\* C18: total_submitters_by_team has a key for a team exactly when a sample
\* of submitter_experience_by_initiative passing the initiative and
\* epic_team filters carries it (a passing sample without the label gives
\* the key null), mapped to the value of the last such sample;
\* coverage_by_submitter has one entry per passing sample of
\* initiative_coverage, in document order; every entry is of the requested
\* initiative.
CoverageExact ==
    \A i \in Slots :
        ViewOk(i, "get_initiative_coverage") =>
            LET text == TextOf(i)
                P1 == Passing(i, "submitter_experience_by_initiative")
                P2 == Passing(i, "initiative_coverage")
                total == result[i].data.total_submitters_by_team
                list == result[i].data.coverage_by_submitter
            IN  /\ DOMAIN total = { Label(text[k], "epic_team") : k \in P1 }
                /\ \A t \in DOMAIN total :
                      total[t] = text[Last({k \in P1 : Label(text[k], "epic_team") = t})].value
                /\ Len(list) = Cardinality(P2)
                /\ \A k \in P2 :
                      list[Cardinality({j \in P2 : j <= k})] = CoverageEntry(text[k])
                /\ \A j \in 1..Len(list) :
                      list[j].initiative = Some(Trimmed(args[i].initiative[1]))
                /\ result[i].data.initiative = Trimmed(args[i].initiative[1])

\* team T1 counted 2 then 6, then a coverage sample: the mapping holds 6
LastTeamCountWins ==
    \E i \in Slots :
        /\ ViewOk(i, "get_initiative_coverage")
        /\ args[i].epic_team = s_empty
        /\ Len(TextOf(i)) = 3
        /\ TextOf(i)[1] = Sample("submitter_experience_by_initiative",
                                 [initiative |-> s_Foo, epic_team |-> s_T1], 2)
        /\ TextOf(i)[2] = Sample("submitter_experience_by_initiative",
                                 [initiative |-> s_Foo, epic_team |-> s_T1], 6)
        /\ TextOf(i)[3].name = "initiative_coverage"
        /\ TextOf(i)[3].labels.initiative = s_Foo
        /\ DOMAIN result[i].data.total_submitters_by_team = {Some(s_T1)}
        /\ result[i].data.total_submitters_by_team[Some(s_T1)] = 6
        /\ Len(result[i].data.coverage_by_submitter) = 1

\* ------------------------------------------------------------------------
\* The proficiency views on documents with ties, repeats and missing labels
\* ------------------------------------------------------------------------

\* longest document served to the proficiency views below
ProficiencyMaxLines == 3

\* "min_level: int = 3"
default_min_level == 3

s_aliceSp == <<"a", "l", " ">>

s_Alice == <<"A", "l">>

ProficiencyViews ==
    { "get_submitter_skill_profile", "find_best_submitters_for_initiative",
      "get_epic_expertise" }

ProficiencyLines ==
    { Sample("proficiency_by_user_initiative",
             [submitter |-> s_alice, initiative |-> s_Foo, epic_team |-> s_T1], 3),
      Sample("proficiency_by_user_initiative",
             [submitter |-> s_alice, initiative |-> s_Foo, epic_team |-> s_T2], 3),
      Sample("proficiency_by_user_initiative",
             [submitter |-> s_bob, initiative |-> s_Foo, epic_team |-> s_T1], 2),
      Sample("proficiency_by_user_initiative",
             [submitter |-> s_bob, initiative |-> s_Foo, epic_team |-> s_T2], 4),
      Sample("proficiency_by_user_initiative",
             [submitter |-> s_alice, initiative |-> s_foo, epic_team |-> s_T1], 4),
      Sample("proficiency_by_user_initiative",
             [initiative |-> s_Foo, epic_team |-> s_T1], 4),
      Sample("proficiency_by_user_epic",
             [submitter |-> s_alice, epic |-> s_E1, epic_team |-> s_T1], 4),
      Sample("proficiency_by_user_epic",
             [submitter |-> s_bob, epic |-> s_E1, epic_team |-> s_T1], 4),
      Sample("proficiency_by_user_epic",
             [submitter |-> s_bob, epic |-> s_E1, epic_team |-> s_T2], 2),
      Sample("proficiency_by_user_epic",
             [submitter |-> s_alice, epic |-> s_Unknown, epic_team |-> s_T1], 1),
      Sample("submitter_experience_by_epic", [epic |-> s_E1], 2),
      Sample("submitter_experience_by_epic", [epic |-> s_E1], 5),
      Sample("submitter_experience_by_epic", [epic |-> s_Unknown], 1) }

ProficiencyDocs ==
    [skill |-> Docs(ProficiencyLines, ProficiencyMaxLines), swarm |-> {}]

ProficiencyArgs ==
    Only(ProficiencyViews,
         [o \in Ops |->
            CASE o = "get_submitter_skill_profile" ->
                   { [submitter |-> sub] : sub \in {s_alice, s_bob, s_aliceSp, s_Alice} }
              [] o = "find_best_submitters_for_initiative" ->
                   { [initiative |-> Some(s_Foo), min_level |-> m] :
                       m \in {default_min_level, 4} }
              [] o = "get_epic_expertise" -> { [epic |-> e] : e \in {s_E1, s_empty} }
              [] OTHER -> {}])

NextProficiency ==
    \/ CallView(1, ProficiencyArgs)
    \/ ViewAnswered(1, ProficiencyDocs)
    \/ TransportFailed(1)
    \/ Cancelled(1)

SpecProficiency == Init /\ [][NextProficiency]_vars

\* place of position k among the positions A in document order
PlaceIn(A, k) == Cardinality({j \in A : j <= k})

CandidateEntry(line) ==
    [submitter |-> Label(line, "submitter"),
     initiative |-> Label(line, "initiative"),
     epic_team |-> Label(line, "epic_team"),
     proficiency_level |-> line.value]

\* C14: the candidates are exactly the samples of
\* proficiency_by_user_initiative labelled with the requested initiative
\* whose value is >= min_level, ordered by value descending, equal values in
\* document order.
BestSubmittersExact ==
    \A i \in Slots :
        ViewOk(i, "find_best_submitters_for_initiative") =>
            LET text == TextOf(i)
                M == { k \in OfInitiative(i, "proficiency_by_user_initiative") :
                         text[k].value >= args[i].min_level }
                R == result[i].data.candidates
            IN  /\ result[i].data.min_level = args[i].min_level
                /\ Len(R) = Cardinality(M)
                /\ \A m \in M : R[RankDesc(text, M, m)] = CandidateEntry(text[m])

\* levels 2, 3, 4 of the initiative with min_level 3: the samples at 4 and 3
\* come back, in that order
LevelsThreeAndUp ==
    \E i \in Slots :
        /\ ViewOk(i, "find_best_submitters_for_initiative")
        /\ args[i].min_level = 3
        /\ Len(TextOf(i)) = 3
        /\ \A k \in 1..3 :
              /\ TextOf(i)[k].name = "proficiency_by_user_initiative"
              /\ TextOf(i)[k].labels.initiative = s_Foo
        /\ TextOf(i)[1].value = 2 /\ TextOf(i)[2].value = 3 /\ TextOf(i)[3].value = 4
        /\ Len(result[i].data.candidates) = 2
        /\ result[i].data.candidates[1].proficiency_level = 4
        /\ result[i].data.candidates[2].proficiency_level = 3

InitiativeLevel(line) ==
    [initiative |-> Label(line, "initiative"),
     epic_team |-> Label(line, "epic_team"),
     proficiency_level |-> line.value]

EpicLevel(line) ==
    [epic |-> Label(line, "epic"),
     epic_team |-> Label(line, "epic_team"),
     proficiency_level |-> line.value]

\* C15: by_initiative (by_epic) holds one entry for each sample of
\* proficiency_by_user_initiative (proficiency_by_user_epic) whose submitter
\* label is the requested identity character for character, and no other,
\* in document order; a sample without the submitter label is not selected.
ProfileExact ==
    \A i \in Slots :
        ViewOk(i, "get_submitter_skill_profile") =>
            LET text == TextOf(i)
                A == Hits(text, "proficiency_by_user_initiative", "submitter",
                          args[i].submitter)
                B == Hits(text, "proficiency_by_user_epic", "submitter",
                          args[i].submitter)
                d == result[i].data
            IN  /\ d.submitter = args[i].submitter
                /\ Len(d.by_initiative) = Cardinality(A)
                /\ \A k \in A : d.by_initiative[PlaceIn(A, k)] = InitiativeLevel(text[k])
                /\ Len(d.by_epic) = Cardinality(B)
                /\ \A k \in B : d.by_epic[PlaceIn(B, k)] = EpicLevel(text[k])

\* the one sample {submitter=alice, initiative=Foo, epic_team=T1} 3 asked
\* for alice
AliceProfile ==
    \E i \in Slots :
        /\ ViewOk(i, "get_submitter_skill_profile")
        /\ args[i].submitter = s_alice
        /\ TextOf(i) = << Sample("proficiency_by_user_initiative",
                            [submitter |-> s_alice, initiative |-> s_Foo,
                             epic_team |-> s_T1], 3) >>
        /\ result[i].data.by_initiative =
              << [initiative |-> Some(s_Foo), epic_team |-> Some(s_T1),
                  proficiency_level |-> 3] >>
        /\ result[i].data.by_epic = <<>>

\* the epic the view looks up: the requested one, "Unknown" for an empty one
EpicLookedUp(a) == IF a.epic = s_empty THEN s_Unknown ELSE a.epic

SubmitterLevel(line) ==
    [submitter |-> Label(line, "submitter"),
     epic_team |-> Label(line, "epic_team"),
     proficiency_level |-> line.value]

\* C17: total_submitters is the value of the last sample of
\* submitter_experience_by_epic for the epic looked up (0 when there is
\* none); submitter_levels lists every sample of proficiency_by_user_epic
\* for it, by level descending, equal levels in document order.  Each of the
\* two depends on the samples of its own family only, so not on where the
\* other family stands in the document.
EpicExpertiseExact ==
    \A i \in Slots :
        ViewOk(i, "get_epic_expertise") =>
            LET text == TextOf(i)
                wanted == EpicLookedUp(args[i])
                C == Hits(text, "submitter_experience_by_epic", "epic", wanted)
                M == Hits(text, "proficiency_by_user_epic", "epic", wanted)
                d == result[i].data
            IN  /\ d.epic = wanted
                /\ d.total_submitters = IF C = {} THEN 0 ELSE text[Last(C)].value
                /\ Len(d.submitter_levels) = Cardinality(M)
                /\ \A m \in M :
                      d.submitter_levels[RankDesc(text, M, m)] = SubmitterLevel(text[m])

\* the count of the epic given as 2 and then as 5, the proficiency sample
\* standing between the two
LastEpicCountWins ==
    \E i \in Slots :
        /\ ViewOk(i, "get_epic_expertise")
        /\ args[i].epic = s_E1
        /\ Len(TextOf(i)) = 3
        /\ TextOf(i)[1] = Sample("submitter_experience_by_epic", [epic |-> s_E1], 2)
        /\ TextOf(i)[2].name = "proficiency_by_user_epic"
        /\ TextOf(i)[2].labels.epic = s_E1
        /\ TextOf(i)[3] = Sample("submitter_experience_by_epic", [epic |-> s_E1], 5)
        /\ result[i].data.total_submitters = 5
        /\ Len(result[i].data.submitter_levels) = 1

\* ------------------------------------------------------------------------
\* The views called with empty filter values
\* ------------------------------------------------------------------------

\* longest document served to the views called with empty values
UnsetMaxLines == 2

UnsetSkillLines ==
    { Sample("proficiency_by_user_initiative",
             [submitter |-> s_alice, initiative |-> s_Foo, epic_team |-> s_T1], 3),
      Sample("proficiency_by_user_initiative",
             [submitter |-> s_empty, initiative |-> s_empty, epic_team |-> s_T1], 4),
      Sample("initiative_coverage",
             [submitter |-> s_alice, initiative |-> s_Foo, epic_team |-> s_T1], 50),
      Sample("initiative_coverage",
             [submitter |-> s_bob, initiative |-> s_Foo], 30),
      Sample("initiative_coverage",
             [submitter |-> s_bob, initiative |-> s_empty, epic_team |-> s_empty], 10),
      Sample("submitter_experience_by_initiative",
             [initiative |-> s_Foo, epic_team |-> s_T1], 2),
      Sample("proficiency_by_user_epic",
             [submitter |-> s_alice, epic |-> s_E1, epic_team |-> s_T1], 4),
      Sample("proficiency_by_user_epic",
             [submitter |-> s_empty, epic |-> s_Unknown, epic_team |-> s_T1], 2),
      Sample("submitter_experience_by_epic", [epic |-> s_E1], 2),
      Sample("submitter_experience_by_epic", [epic |-> s_Unknown], 1) }

UnsetSwarmLines ==
    { Sample("group_top_contributor", [group |-> s_g1, contributor |-> s_alice], 5),
      Sample("group_top_contributor", [group |-> s_empty, contributor |-> s_bob], 4),
      Sample("group_total_reviews", [group |-> s_g1], 7),
      Sample("group_total_reviews", [group |-> s_empty], 3),
      Sample("group_daily_total_reviews", [group |-> s_g1], 1),
      Sample("group_daily_total_reviews", EmptyDict, 2) }

UnsetDocs ==
    [skill |-> Docs(UnsetSkillLines, UnsetMaxLines),
     swarm |-> Docs(UnsetSwarmLines, UnsetMaxLines)]

UnsetArgs ==
    Only(Views,
         [o \in Ops |->
            CASE o = "get_submitter_skill_profile" ->
                   { [submitter |-> sub] : sub \in {s_empty, s_alice} }
              [] o = "get_initiative_coverage" ->
                   { [initiative |-> Some(ini), epic_team |-> t] :
                       ini \in {s_empty, s_Foo}, t \in {s_empty, s_T1} }
              [] o = "find_best_submitters_for_initiative" ->
                   { [initiative |-> Some(ini), min_level |-> default_min_level] :
                       ini \in {s_empty, s_Foo} }
              [] o = "get_epic_expertise" -> { [epic |-> e] : e \in {s_empty, s_E1} }
              [] o = "get_swarm_group_top_contributors" ->
                   { [group |-> g, limit |-> default_limit] : g \in {s_empty, s_g1} }
              [] OTHER -> { [group |-> g] : g \in {s_empty, s_g1} }])

NextUnset ==
    \/ CallView(1, UnsetArgs)
    \/ ViewAnswered(1, UnsetDocs)
    \/ TransportFailed(1)
    \/ Cancelled(1)

SpecUnset == Init /\ [][NextUnset]_vars

\* the positions of the document holding a sample of the metric
OfFamily(text, metric) ==
    { k \in 1..Len(text) : text[k].kind = "sample" /\ text[k].name = metric }

\* what each view returns when the positions sel(metric) of each metric are
\* the ones selected: list lengths, non-null fields, the mapping's keys
Returns(i, sel(_)) ==
    LET o == op[i]
        d == result[i].data
        text == TextOf(i)
    IN  CASE o = "get_submitter_skill_profile" ->
               /\ Len(d.by_initiative) = Cardinality(sel("proficiency_by_user_initiative"))
               /\ Len(d.by_epic) = Cardinality(sel("proficiency_by_user_epic"))
          [] o = "get_initiative_coverage" ->
               /\ Len(d.coverage_by_submitter) = Cardinality(sel("initiative_coverage"))
               /\ DOMAIN d.total_submitters_by_team =
                     { Label(text[k], "epic_team") :
                         k \in sel("submitter_experience_by_initiative") }
          [] o = "find_best_submitters_for_initiative" ->
               Len(d.candidates) =
                   Cardinality({ k \in sel("proficiency_by_user_initiative") :
                                   text[k].value >= args[i].min_level })
          [] o = "get_epic_expertise" ->
               /\ Len(d.submitter_levels) = Cardinality(sel("proficiency_by_user_epic"))
               /\ (d.total_submitters # 0) = (sel("submitter_experience_by_epic") # {})
          [] o = "get_swarm_group_top_contributors" ->
               Len(d.top_contributors) =
                   Min(args[i].limit, Cardinality(sel("group_top_contributor")))
          [] o = "get_swarm_group_summary" ->
               \A m \in DOMAIN summary_fields :
                   (d[summary_fields[m]] # None) = (sel(m) # {})
          [] o = "get_swarm_group_daily_snapshot" ->
               \A m \in DOMAIN snapshot_fields :
                   (d[snapshot_fields[m]] # None) = (sel(m) # {})

\* a view that returned ok=true
AnyViewOk(i) == pc[i] = "returned" /\ op[i] \in Views /\ result[i].ok

\* the value of the view's one filter parameter other than epic_team
FilterValue(i) ==
    CASE op[i] = "get_submitter_skill_profile" -> args[i].submitter
      [] op[i] \in {"get_initiative_coverage", "find_best_submitters_for_initiative"} ->
           args[i].initiative[1]
      [] op[i] = "get_epic_expertise" -> args[i].epic
      [] OTHER -> args[i].group

FilterKey(i) ==
    CASE op[i] = "get_submitter_skill_profile" -> "submitter"
      [] op[i] \in {"get_initiative_coverage", "find_best_submitters_for_initiative"} ->
           "initiative"
      [] op[i] = "get_epic_expertise" -> "epic"
      [] OTHER -> "group"

\* the value the view compares the label with: the request, stripped for
\* an initiative
Compared(i) ==
    IF FilterKey(i) = "initiative" THEN Trimmed(FilterValue(i)) ELSE FilterValue(i)

\* the coverage view's epic_team constraint, skipped when epic_team is empty
TeamAllows(i, line) ==
    op[i] = "get_initiative_coverage" => TeamPasses(line, args[i].epic_team)

\* C12 as stated: an empty submitter, initiative, epic, group or epic_team
\* is no filter: every sample of the families the view reads passes that
\* constraint, and the empty value is neither compared with the labels nor
\* replaced by another value.
EmptyValueIsNoFilter ==
    \A i \in Slots :
        AnyViewOk(i) =>
            LET text == TextOf(i)
                Passes(metric) ==
                    { k \in OfFamily(text, metric) :
                        /\ \/ FilterValue(i) = s_empty
                           \/ Label(text[k], FilterKey(i)) = Some(Compared(i))
                        /\ TeamAllows(i, text[k]) }
            IN  /\ Returns(i, Passes)
                /\ op[i] = "get_epic_expertise" => result[i].data.epic = args[i].epic

\* C12 amended: only the coverage view's epic_team is optional: empty, it
\* is skipped and samples pass with any epic_team label or none.  An empty
\* submitter, initiative or group is compared with the label like any other
\* value, so it selects the samples whose label is the empty string and no
\* sample that lacks the label or carries a value; an empty epic is
\* replaced by "Unknown" and selects the samples labelled epic="Unknown".
OnlyEpicTeamIsOptional ==
    \A i \in Slots :
        AnyViewOk(i) =>
            LET text == TextOf(i)
                wanted == IF op[i] = "get_epic_expertise"
                          THEN EpicLookedUp(args[i]) ELSE Compared(i)
                Passes(metric) ==
                    { k \in Hits(text, metric, FilterKey(i), wanted) :
                        TeamAllows(i, text[k]) }
            IN  /\ Returns(i, Passes)
                /\ op[i] = "get_epic_expertise" =>
                      result[i].data.epic = IF args[i].epic = s_empty
                                            THEN s_Unknown ELSE args[i].epic

\* a profile asked for the empty submitter over one sample labelled
\* submitter="" and one labelled alice: only the first is returned
EmptySubmitterCompared ==
    \E i \in Slots :
        /\ AnyViewOk(i)
        /\ op[i] = "get_submitter_skill_profile"
        /\ args[i].submitter = s_empty
        /\ Len(TextOf(i)) = 2
        /\ \A k \in 1..2 : TextOf(i)[k].name = "proficiency_by_user_initiative"
        /\ TextOf(i)[1].labels.submitter = s_alice
        /\ TextOf(i)[2].labels.submitter = s_empty
        /\ Len(result[i].data.by_initiative) = 1
        /\ result[i].data.by_initiative[1].proficiency_level = 4

\* ------------------------------------------------------------------------
\* The Jira task tools and their query parameters
\* ------------------------------------------------------------------------

JiraOps == { "get_jira_sprint_tasks", "get_user_sprint_tasks", "search_jira_tasks" }

JiraArgs ==
    Only(JiraOps,
         [o \in Ops |->
            CASE o = "get_jira_sprint_tasks" ->
                   { [sprint_id |-> sp, status_filter |-> f] :
                       sp \in {"", "42"}, f \in {"", "CLOSED"} }
              [] o = "get_user_sprint_tasks" ->
                   { [sprint_id |-> sp, user_name |-> u, status_filter |-> f] :
                       sp \in {"", "42"}, u \in {"", "al"}, f \in {"", "CLOSED"} }
              [] o = "search_jira_tasks" ->
                   { [query |-> q, sprint_id |-> sp, user_name |-> u,
                      status_filter |-> f] :
                       q \in {"", "fix"}, sp \in {"", "42"}, u \in {"", "al"},
                       f \in {"", "CLOSED"} }
              [] OTHER -> {}])

NextJira ==
    \/ CallProxy(1, JiraArgs)
    \/ ProxyAnswered(1, AllDocs)
    \/ TransportFailed(1)
    \/ Cancelled(1)

SpecJira == Init /\ [][NextJira]_vars

\* the parameters a tool must be given, each with the upstream's name for it
RequiredParams(o) ==
    CASE o = "get_jira_sprint_tasks" -> [sprint_id |-> "sprint_id"]
      [] o = "get_user_sprint_tasks" -> [sprint_id |-> "sprint_id", user_name |-> "user"]
      [] o = "search_jira_tasks" -> [query |-> "q"]

\* the parameters a tool may be given, each with the upstream's name for it
OptionalParams(o) ==
    CASE o = "get_jira_sprint_tasks" -> [status_filter |-> "status"]
      [] o = "get_user_sprint_tasks" -> [status_filter |-> "status"]
      [] o = "search_jira_tasks" ->
           [sprint_id |-> "sprint_id", user_name |-> "user", status_filter |-> "status"]

\* C20: the three Jira task tools send an optional parameter exactly when
\* its value is non-empty, under the upstream's name for it; a required
\* parameter is always sent, with its value unchanged, the empty value
\* included; nothing else is sent.
OptionalParamsForwarded ==
    \A i \in Slots :
        (pc[i] # "idle" /\ op[i] \in JiraOps) =>
            LET req == RequiredParams(op[i])
                opt == OptionalParams(op[i])
                sent == request[i].params
            IN  /\ DOMAIN sent =
                      { req[p] : p \in DOMAIN req }
                        \cup { opt[p] : p \in {q \in DOMAIN opt : args[i][q] # ""} }
                /\ \A p \in DOMAIN req : sent[req[p]] = args[i][p]
                /\ \A p \in DOMAIN opt : args[i][p] # "" => sent[opt[p]] = args[i][p]

\* a search by user alone: q and user are sent, sprint_id and status are not
SearchByUserOnly ==
    \E i \in Slots :
        /\ pc[i] = "awaiting"
        /\ op[i] = "search_jira_tasks"
        /\ args[i] = [query |-> "fix", sprint_id |-> "", user_name |-> "al",
                      status_filter |-> ""]
        /\ request[i].params = [q |-> "fix", user |-> "al"]

====
